--------------------------- MODULE Desktop_proofs ---------------------------
(***************************************************************************)
(* Proofs about the desktop fallback, for every set of directories, files  *)
(* and ids, every order of a listing and every sequence of edits.          *)
(***************************************************************************)
EXTENDS Desktop, Induction, SequenceTheorems

----------------------------------------------------------------------------
(* One directory, and then the next                                        *)

Option(S) == S \cup {None}

\* The three tiers of the scan.
Hits == [class : Option(Entry), exec : Option(Entry), fuzzy : Option(Entry)]

\* One file more.
LEMMA ConsiderFacts ==
    ASSUME NEW b \in Hits, NEW e \in Entry, NEW id
    PROVE  /\ Consider(b, e, id) \in Hits
           /\ IF b.class = None /\ ClassHit(e, id)
              THEN Consider(b, e, id).class = e
              ELSE /\ Consider(b, e, id).class = b.class
                   /\ Consider(b, e, id).exec
                         = OrElse(b.exec, IF ExecHit(e, id) THEN e ELSE None)
                   /\ Consider(b, e, id).fuzzy
                         = OrElse(b.fuzzy, IF FuzzyHit(e, id) THEN e ELSE None)
  <1>1. /\ OrElse(b.exec, IF ExecHit(e, id) THEN e ELSE None) \in Option(Entry)
        /\ OrElse(b.fuzzy, IF FuzzyHit(e, id) THEN e ELSE None) \in Option(Entry)
    BY DEF OrElse, Hits, Option
  <1>2. CASE b.class = None /\ ClassHit(e, id)
    BY <1>2 DEF Consider, Hits, Option
  <1>3. CASE ~(b.class = None /\ ClassHit(e, id))
    <2> DEFINE x == OrElse(b.exec, IF ExecHit(e, id) THEN e ELSE None)
               f == OrElse(b.fuzzy, IF FuzzyHit(e, id) THEN e ELSE None)
    <2>1. Consider(b, e, id) = [b EXCEPT !.exec = x, !.fuzzy = f]
      BY <1>3 DEF Consider, Hits
    <2> HIDE DEF x, f
    <2>2. /\ Consider(b, e, id) \in Hits
          /\ Consider(b, e, id).class = b.class
          /\ Consider(b, e, id).exec = x
          /\ Consider(b, e, id).fuzzy = f
      BY <1>1, <2>1 DEF Hits, x, f
    <2> QED
      BY <1>3, <2>2 DEF x, f
  <1> QED
    BY <1>2, <1>3

\* A chain of steps from hits to hits.
LEMMA HitsRecursion ==
    ASSUME NEW b \in Hits, NEW n \in Nat, NEW step \in [1 .. n -> [Hits -> Hits]]
    PROVE  \E f \in [0 .. n -> Hits] : f[0] = b /\ \A i \in 1 .. n : f[i] = step[i][f[i - 1]]
  BY BoundedRecursion, Z3

\* The scan of a directory is a chain of such steps.
LEMMA ScanDirSteps ==
    ASSUME NEW b \in Hits, NEW listing \in Seq(Entry), NEW id
    PROVE  \E after \in [0 .. Len(listing) -> Hits] :
              /\ after[0] = b
              /\ \A i \in 1 .. Len(listing) : after[i] = Consider(after[i - 1], listing[i], id)
              /\ ScanDir(b, listing, id) = after[Len(listing)]
  <1> DEFINE n == Len(listing)
             step == [i \in 1 .. n |-> [x \in Hits |-> Consider(x, listing[i], id)]]
             Eq(f) == f = [i \in 0 .. n |->
                             IF i = 0 THEN b ELSE Consider(f[i - 1], listing[i], id)]
             after == CHOOSE f : Eq(f)
  <1>1. n \in Nat /\ \A i \in 1 .. n : listing[i] \in Entry
    BY LenProperties, ElementOfSeq
  <1>2. ScanDir(b, listing, id) = after[n]
    BY DEF ScanDir
  <1> HIDE DEF n
  <1>3. step \in [1 .. n -> [Hits -> Hits]]
    BY <1>1, ConsiderFacts
  <1>4. PICK g \in [0 .. n -> Hits] : g[0] = b /\ \A i \in 1 .. n : g[i] = step[i][g[i - 1]]
    <2> HIDE DEF step
    <2> QED
      BY <1>1, <1>3, HitsRecursion
  <1>5. \A i \in 1 .. n : g[i] = Consider(g[i - 1], listing[i], id)
    <2> SUFFICES ASSUME NEW i \in 1 .. n PROVE g[i] = Consider(g[i - 1], listing[i], id)
      OBVIOUS
    <2>1. g[i - 1] \in Hits
      BY <1>1
    <2> QED
      BY <1>4, <2>1
  <1>6. Eq(g)
    <2> DEFINE h == [i \in 0 .. n |-> IF i = 0 THEN b ELSE Consider(g[i - 1], listing[i], id)]
    <2>1. \A i \in 0 .. n : g[i] = h[i]
      BY <1>1, <1>4, <1>5
    <2>2. g = h
      BY <2>1
    <2> QED
      BY <2>2
  <1>7. Eq(after)
    BY <1>6
  <1> HIDE DEF step, after
  <1>8. after[0] = b /\ \A i \in 1 .. n : after[i] = Consider(after[i - 1], listing[i], id)
    <2>1. \A i \in 0 .. n : after[i] = IF i = 0 THEN b ELSE Consider(after[i - 1], listing[i], id)
      BY <1>7
    <2> QED
      BY <1>1, <2>1
  <1>9. after \in [0 .. n -> Hits]
    <2> DEFINE S == {i \in 0 .. n : after[i] \in Hits}
    <2>1. 0 \in S
      BY <1>1, <1>8
    <2>2. ASSUME NEW i \in 0 .. (n - 1), i \in S
          PROVE  i + 1 \in S
      <3>1. i + 1 \in 1 .. n /\ after[i + 1] = Consider(after[i], listing[i + 1], id)
        BY <1>1, <1>8
      <3> QED
        BY <1>1, <2>2, <3>1, ConsiderFacts
    <2> HIDE DEF S
    <2>3. 0 .. n \subseteq S
      BY <1>1, <2>1, <2>2, BoundedInduction
    <2>4. \A i \in 0 .. n : after[i] \in Hits
      BY <2>3 DEF S
    <2>5. after = [i \in 0 .. n |-> after[i]]
      BY <1>7
    <2> QED
      BY <2>4, <2>5
  <1> QED
    BY <1>2, <1>8, <1>9 DEF n

\* The scan of a directory finds entries.
LEMMA ScanDirType ==
    ASSUME NEW b \in Hits, NEW listing \in Seq(Entry), NEW id
    PROVE  ScanDir(b, listing, id) \in Hits
  <1>1. Len(listing) \in 0 .. Len(listing)
    BY LenProperties
  <1> QED
    BY <1>1, ScanDirSteps

\* The scan of all directories is a chain of such scans, which stops at the
\* first directory with a class hit.
LEMMA ScanSteps ==
    ASSUME NEW order, \A d \in Dirs : order[d] \in Seq(Entry), NEW id
    PROVE  \E upto \in [0 .. NDirs -> Hits] :
              /\ upto[0] = NoHit
              /\ \A d \in Dirs :
                    upto[d] = IF upto[d - 1].class # None THEN upto[d - 1]
                              ELSE ScanDir(upto[d - 1], order[d], id)
              /\ Scan(order, id) = OrElse(upto[NDirs].class,
                                          OrElse(upto[NDirs].exec, upto[NDirs].fuzzy))
  <1> DEFINE Next1(h, d) == IF h.class # None THEN h ELSE ScanDir(h, order[d], id)
             step == [d \in 1 .. NDirs |-> [h \in Hits |-> Next1(h, d)]]
             Eq(f) == f = [d \in 0 .. NDirs |->
                             IF d = 0 THEN NoHit
                             ELSE IF f[d - 1].class # None THEN f[d - 1]
                             ELSE ScanDir(f[d - 1], order[d], id)]
             upto == CHOOSE f : Eq(f)
  <1>1. NDirs \in Nat /\ Dirs = 1 .. NDirs /\ NoHit \in Hits
    BY DesktopAssumption DEF Dirs, NoHit, Hits, Option
  <1>2. Scan(order, id) = OrElse(upto[NDirs].class,
                                 OrElse(upto[NDirs].exec, upto[NDirs].fuzzy))
    BY DEF Scan
  <1>3. ASSUME NEW d \in 1 .. NDirs, NEW h \in Hits
        PROVE  Next1(h, d) \in Hits
    BY <1>1, ScanDirType
  <1>4. step \in [1 .. NDirs -> [Hits -> Hits]]
    <2> HIDE DEF Next1
    <2> QED
      BY <1>3
  <1>5. PICK g \in [0 .. NDirs -> Hits] :
           g[0] = NoHit /\ \A d \in 1 .. NDirs : g[d] = step[d][g[d - 1]]
    <2> HIDE DEF step
    <2> QED
      BY <1>1, <1>4, HitsRecursion
  <1>6. \A d \in 1 .. NDirs : g[d] = Next1(g[d - 1], d)
    <2> SUFFICES ASSUME NEW d \in 1 .. NDirs PROVE g[d] = Next1(g[d - 1], d)
      OBVIOUS
    <2>1. g[d - 1] \in Hits
      BY <1>1
    <2> HIDE DEF Next1
    <2> QED
      BY <1>5, <2>1
  <1>7. Eq(g)
    <2> DEFINE h == [d \in 0 .. NDirs |-> IF d = 0 THEN NoHit ELSE Next1(g[d - 1], d)]
    <2>1. \A d \in 0 .. NDirs : g[d] = h[d]
      <3> HIDE DEF Next1
      <3> QED
        BY <1>1, <1>5, <1>6
    <2>2. g = h
      BY <2>1
    <2> QED
      BY <2>2
  <1>8. Eq(upto)
    BY <1>7
  <1> HIDE DEF upto
  <1>9. upto[0] = NoHit /\ \A d \in 1 .. NDirs : upto[d] = Next1(upto[d - 1], d)
    <2>1. \A d \in 0 .. NDirs : upto[d] = IF d = 0 THEN NoHit ELSE Next1(upto[d - 1], d)
      BY <1>8
    <2> HIDE DEF Next1
    <2> QED
      BY <1>1, <2>1
  <1>10. upto \in [0 .. NDirs -> Hits]
    <2> DEFINE S == {d \in 0 .. NDirs : upto[d] \in Hits}
    <2>1. 0 \in S
      BY <1>1, <1>9
    <2>2. ASSUME NEW d \in 0 .. (NDirs - 1), d \in S
          PROVE  d + 1 \in S
      <3>1. d + 1 \in 1 .. NDirs /\ upto[d + 1] = Next1(upto[d], d + 1) /\ upto[d] \in Hits
        <4> HIDE DEF Next1
        <4> QED
          BY <1>1, <1>9, <2>2
      <3>2. upto[d + 1] \in Hits
        <4> HIDE DEF Next1
        <4> QED
          BY <1>3, <3>1
      <3> QED
        BY <1>1, <3>1, <3>2
    <2> HIDE DEF S
    <2>3. 0 .. NDirs \subseteq S
      BY <1>1, <2>1, <2>2, BoundedInduction
    <2>4. \A d \in 0 .. NDirs : upto[d] \in Hits
      BY <2>3 DEF S
    <2>5. upto = [d \in 0 .. NDirs |-> upto[d]]
      BY <1>8
    <2> QED
      BY <2>4, <2>5
  <1> QED
    BY <1>1, <1>2, <1>9, <1>10

----------------------------------------------------------------------------
(* What the scan has found among the entries it has read                   *)

\* x is one of the hits H of the earliest directory, if there are any.
IsEarliest(x, H) ==
    IF x = None THEN H = {} ELSE x \in H /\ \A e \in H : x.dir <= e.dir

\* The tiers, of the entries E. The lower ones do not matter after a class hit.
Tracks(b, E, id) ==
    /\ IsEarliest(b.class, {e \in E : ClassHit(e, id)})
    /\ b.class = None =>
          /\ IsEarliest(b.exec, {e \in E : ExecHit(e, id)})
          /\ IsEarliest(b.fuzzy, {e \in E : FuzzyHit(e, id)})

\* An entry of a later directory, or of the same, that may be a hit.
LEMMA EarliestGrows ==
    ASSUME NEW H \in SUBSET Entry, NEW x \in Option(Entry), IsEarliest(x, H),
           NEW e \in Entry, \A f \in H : f.dir <= e.dir
    PROVE  /\ IsEarliest(OrElse(x, e), H \cup {e})
           /\ IsEarliest(OrElse(x, None), H)
  <1>1. e # None /\ e.dir <= e.dir
    BY NoneAssumption, DesktopAssumption DEF Entry, Dirs
  <1> QED
    BY <1>1 DEF IsEarliest, OrElse

\* One file more is taken into account.
LEMMA ConsiderTracks ==
    ASSUME NEW b \in Hits, NEW E \in SUBSET Entry, NEW e \in Entry, NEW id,
           \A f \in E : f.dir <= e.dir, Tracks(b, E, id)
    PROVE  Tracks(Consider(b, e, id), E \cup {e}, id)
  <1> DEFINE c == Consider(b, e, id)
             Of(F) == {f \in F : ClassHit(f, id)}
             By(F) == {f \in F : ExecHit(f, id)}
             Like(F) == {f \in F : FuzzyHit(f, id)}
  <1>1. e # None /\ None \notin Entry
    BY NoneAssumption
  <1>2. b.class \in Option(Entry) /\ b.exec \in Option(Entry) /\ b.fuzzy \in Option(Entry)
    BY DEF Hits
  <1>3. CASE b.class = None /\ ClassHit(e, id)
    <2>1. c.class = e
      BY <1>3, ConsiderFacts
    <2>2. Of(E) = {} /\ Of(E \cup {e}) = {e}
      BY <1>3 DEF Tracks, IsEarliest
    <2>3. IsEarliest(e, {e})
      BY <1>1, DesktopAssumption DEF IsEarliest, Entry, Dirs
    <2> QED
      BY <1>1, <2>1, <2>2, <2>3 DEF Tracks
  <1>4. CASE b.class # None
    <2>1. c.class = b.class
      BY <1>4, ConsiderFacts
    <2>2. IsEarliest(b.class, Of(E))
      BY DEF Tracks
    <2>3. IsEarliest(b.class, Of(E \cup {e}))
      BY <1>4, <2>2 DEF IsEarliest
    <2> QED
      BY <1>4, <2>1, <2>3 DEF Tracks
  <1>5. CASE b.class = None /\ ~ClassHit(e, id)
    <2>1. /\ c.class = b.class
          /\ c.exec = OrElse(b.exec, IF ExecHit(e, id) THEN e ELSE None)
          /\ c.fuzzy = OrElse(b.fuzzy, IF FuzzyHit(e, id) THEN e ELSE None)
      BY <1>5, ConsiderFacts
    <2>2. Of(E \cup {e}) = Of(E) /\ IsEarliest(b.class, Of(E))
      BY <1>5 DEF Tracks
    <2>3. IsEarliest(c.exec, By(E \cup {e}))
      <3>1. IsEarliest(b.exec, By(E)) /\ By(E) \in SUBSET Entry /\ \A f \in By(E) : f.dir <= e.dir
        BY <1>5 DEF Tracks
      <3>2. CASE ExecHit(e, id)
        <4>1. By(E \cup {e}) = By(E) \cup {e} /\ c.exec = OrElse(b.exec, e)
          BY <2>1, <3>2
        <4> HIDE DEF By, c
        <4> QED
          BY <1>2, <3>1, <4>1, EarliestGrows
      <3>3. CASE ~ExecHit(e, id)
        <4>1. By(E \cup {e}) = By(E) /\ c.exec = OrElse(b.exec, None)
          BY <2>1, <3>3
        <4> HIDE DEF By, c
        <4> QED
          BY <1>2, <3>1, <4>1, EarliestGrows
      <3> QED
        BY <3>2, <3>3
    <2>4. IsEarliest(c.fuzzy, Like(E \cup {e}))
      <3>1. /\ IsEarliest(b.fuzzy, Like(E)) /\ Like(E) \in SUBSET Entry
            /\ \A f \in Like(E) : f.dir <= e.dir
        BY <1>5 DEF Tracks
      <3>2. CASE FuzzyHit(e, id)
        <4>1. Like(E \cup {e}) = Like(E) \cup {e} /\ c.fuzzy = OrElse(b.fuzzy, e)
          BY <2>1, <3>2
        <4> HIDE DEF Like, c
        <4> QED
          BY <1>2, <3>1, <4>1, EarliestGrows
      <3>3. CASE ~FuzzyHit(e, id)
        <4>1. Like(E \cup {e}) = Like(E) /\ c.fuzzy = OrElse(b.fuzzy, None)
          BY <2>1, <3>3
        <4> HIDE DEF Like, c
        <4> QED
          BY <1>2, <3>1, <4>1, EarliestGrows
      <3> QED
        BY <3>2, <3>3
    <2> HIDE DEF c
    <2> QED
      BY <2>1, <2>2, <2>3, <2>4 DEF Tracks, c
  <1> QED
    BY <1>3, <1>4, <1>5

\* A whole directory is taken into account, after the earlier ones.
LEMMA ScanDirTracks ==
    ASSUME NEW b \in Hits, NEW E \in SUBSET Entry, NEW listing \in Seq(Entry), NEW id,
           NEW d \in Dirs, \A f \in E : f.dir <= d,
           \A i \in 1 .. Len(listing) : listing[i].dir = d,
           Tracks(b, E, id)
    PROVE  Tracks(ScanDir(b, listing, id), E \cup {listing[i] : i \in 1 .. Len(listing)}, id)
  <1> DEFINE n == Len(listing)
             Read(i) == E \cup {listing[j] : j \in 1 .. i}
  <1>1. n \in Nat /\ \A i \in 1 .. n : listing[i] \in Entry /\ listing[i].dir = d
    BY LenProperties, ElementOfSeq
  <1>2. PICK after \in [0 .. n -> Hits] :
           /\ after[0] = b
           /\ \A i \in 1 .. n : after[i] = Consider(after[i - 1], listing[i], id)
           /\ ScanDir(b, listing, id) = after[n]
    BY ScanDirSteps
  <1>3. d \in Nat
    BY DesktopAssumption DEF Dirs
  <1> HIDE DEF n
  <1> DEFINE S == {i \in 0 .. n : Tracks(after[i], Read(i), id)}
  <1>4. 0 \in S
    <2>1. Read(0) = E
      OBVIOUS
    <2> QED
      BY <1>1, <1>2, <2>1
  <1>5. ASSUME NEW i \in 0 .. (n - 1), i \in S
        PROVE  i + 1 \in S
    <2>1. i + 1 \in 1 .. n /\ i + 1 \in 0 .. n /\ i \in 0 .. n
      BY <1>1
    <2>2. after[i + 1] = Consider(after[i], listing[i + 1], id)
      BY <1>2, <2>1
    <2>3. Read(i) \in SUBSET Entry /\ \A f \in Read(i) : f.dir <= d
      BY <1>1, <1>3, <2>1
    <2>4. Read(i + 1) = Read(i) \cup {listing[i + 1]}
      BY <1>1, <2>1
    <2>5. listing[i + 1] \in Entry /\ listing[i + 1].dir = d /\ after[i] \in Hits
      BY <1>1, <1>2, <2>1
    <2>6. Tracks(after[i], Read(i), id)
      BY <1>5
    <2> HIDE DEF Read
    <2>7. Tracks(after[i + 1], Read(i + 1), id)
      BY <2>2, <2>3, <2>4, <2>5, <2>6, ConsiderTracks
    <2> QED
      BY <2>1, <2>7
  <1> HIDE DEF S
  <1>6. 0 .. n \subseteq S
    BY <1>1, <1>4, <1>5, BoundedInduction
  <1>7. n \in S
    BY <1>1, <1>6
  <1> QED
    BY <1>2, <1>7 DEF S, n

----------------------------------------------------------------------------
(* The directories                                                         *)

FileSystem == [Dirs -> [Stems -> Contents \cup {None}]]

\* What the file system has to show.
LEMMA CandidateFacts ==
    ASSUME NEW fs \in FileSystem
    PROVE  /\ Candidates(fs) \in SUBSET Entry
           /\ \A e \in Candidates(fs) :
                 /\ IsCandidate(fs, e.dir, e.id)
                 /\ e = Candidate(fs, e.dir, e.id)
                 /\ e.content = fs[e.dir][e.id] /\ e.content.shown
           /\ \A d \in Dirs, s \in Stems :
                 IsCandidate(fs, d, s) => Candidate(fs, d, s) \in Candidates(fs)
  <1>1. ASSUME NEW d \in Dirs, NEW s \in Stems, IsCandidate(fs, d, s)
        PROVE  /\ Candidate(fs, d, s) \in Entry
               /\ Candidate(fs, d, s).id = s /\ Candidate(fs, d, s).dir = d
               /\ Candidate(fs, d, s).content = fs[d][s] /\ fs[d][s].shown
    BY <1>1 DEF IsCandidate, Candidate, Entry, FileSystem
  <1>2. \A d \in Dirs, s \in Stems :
           IsCandidate(fs, d, s) => Candidate(fs, d, s) \in Candidates(fs)
    <2> SUFFICES ASSUME NEW d \in Dirs, NEW s \in Stems, IsCandidate(fs, d, s)
                 PROVE  Candidate(fs, d, s) \in Candidates(fs)
      OBVIOUS
    <2> DEFINE p == <<d, s>>
    <2>1. p \in Dirs \X Stems /\ p[1] = d /\ p[2] = s
      OBVIOUS
    <2> HIDE DEF p
    <2>2. Candidate(fs, p[1], p[2]) \in Candidates(fs)
      BY <2>1 DEF Candidates
    <2> QED
      BY <2>1, <2>2
  <1>3. ASSUME NEW e \in Candidates(fs)
        PROVE  \E d \in Dirs, s \in Stems : IsCandidate(fs, d, s) /\ e = Candidate(fs, d, s)
    BY DEF Candidates
  <1> QED
    BY <1>1, <1>2, <1>3

\* A listing of a directory has each of its candidates, and nothing else.
LEMMA ReadOrderFacts ==
    ASSUME NEW fs \in FileSystem, NEW d \in Dirs, NEW o \in ReadOrders(fs, d)
    PROVE  /\ o \in Seq(Entry)
           /\ \A i \in 1 .. Len(o) : o[i].dir = d
           /\ {o[i] : i \in 1 .. Len(o)} = {e \in Candidates(fs) : e.dir = d}
  <1> DEFINE T == {s \in Stems : IsCandidate(fs, d, s)}
             n == Cardinality(T)
  <1>1. IsFiniteSet(T) /\ n \in Nat
    BY DesktopAssumption, FS_Subset, FS_CardinalityType
  <1>2. PICK q \in SetToSeqs(T) : o = [i \in DOMAIN q |-> Candidate(fs, d, q[i])]
    BY DEF ReadOrders
  <1>3. q \in [1 .. n -> T] /\ \A i, j \in 1 .. n : i # j => q[i] # q[j]
    BY <1>2 DEF SetToSeqs
  <1>4. \A i \in 1 .. n : q[i] \in Stems /\ IsCandidate(fs, d, q[i])
    BY <1>3
  <1>5. \A s \in T : \E i \in 1 .. n : q[i] = s
    <2>1. q \in Injection(1 .. n, T)
      BY <1>3 DEF Injection, IsInjective
    <2>2. Cardinality(1 .. n) = n
      BY <1>1, FS_Interval
    <2> HIDE DEF T
    <2>3. q \in Surjection(1 .. n, T)
      BY <1>1, <2>1, <2>2, FS_Injection
    <2> QED
      BY <2>3 DEF Surjection
  <1> HIDE DEF n
  <1>6. o = [i \in 1 .. n |-> Candidate(fs, d, q[i])]
    BY <1>2, <1>3
  <1>7. \A i \in 1 .. n : /\ o[i] = Candidate(fs, d, q[i])
                          /\ o[i] \in Candidates(fs) /\ o[i] \in Entry /\ o[i].dir = d
    BY <1>4, <1>6, CandidateFacts DEF Candidate
  <1>8. o \in Seq(Entry) /\ Len(o) = n
    BY <1>1, <1>6, <1>7
  <1>9. ASSUME NEW e \in Candidates(fs), e.dir = d
        PROVE  \E i \in 1 .. n : o[i] = e
    <2>1. e.id \in T /\ e = Candidate(fs, d, e.id)
      BY <1>9, CandidateFacts DEF Entry
    <2> HIDE DEF T
    <2>2. PICK i \in 1 .. n : q[i] = e.id
      BY <1>5, <2>1
    <2> QED
      BY <1>7, <2>1, <2>2
  <1> QED
    BY <1>7, <1>8, <1>9

\* The orders that resolve_in can meet.
Listings(fs) ==
    {order \in [Dirs -> UNION {ReadOrders(fs, d) : d \in Dirs}] :
        \A d \in Dirs : order[d] \in ReadOrders(fs, d)}

\* The scan finds, in each tier, an entry of the earliest directory: also the
\* break after a class hit leaves no better entry unread.
LEMMA ScanTracks ==
    ASSUME NEW fs \in FileSystem, NEW order \in Listings(fs), NEW id
    PROVE  \E b \in Hits : /\ Tracks(b, Candidates(fs), id)
                           /\ Scan(order, id) = OrElse(b.class, OrElse(b.exec, b.fuzzy))
  <1> DEFINE Upto(d) == {e \in Candidates(fs) : e.dir <= d}
  <1>1. NDirs \in Nat /\ Dirs = 1 .. NDirs
    BY DesktopAssumption DEF Dirs
  <1>2. \A d \in Dirs : order[d] \in ReadOrders(fs, d)
    BY DEF Listings
  <1>3. \A d \in Dirs : order[d] \in Seq(Entry)
    BY <1>2, ReadOrderFacts
  <1>4. PICK upto \in [0 .. NDirs -> Hits] :
           /\ upto[0] = NoHit
           /\ \A d \in Dirs :
                 upto[d] = IF upto[d - 1].class # None THEN upto[d - 1]
                           ELSE ScanDir(upto[d - 1], order[d], id)
           /\ Scan(order, id) = OrElse(upto[NDirs].class,
                                       OrElse(upto[NDirs].exec, upto[NDirs].fuzzy))
    BY <1>3, ScanSteps
  <1>5. \A e \in Candidates(fs) : e \in Entry /\ e.dir \in 1 .. NDirs
    BY <1>1, CandidateFacts DEF Entry
  <1> DEFINE S == {d \in 0 .. NDirs : Tracks(upto[d], Upto(d), id)}
  <1>6. 0 \in S
    <2>1. Upto(0) = {}
      BY <1>5
    <2>2. Tracks(NoHit, {}, id)
      BY DEF Tracks, IsEarliest, NoHit
    <2>3. upto[0] = NoHit /\ 0 \in 0 .. NDirs
      BY <1>1, <1>4
    <2> HIDE DEF Upto
    <2> QED
      BY <2>1, <2>2, <2>3
  <1>7. ASSUME NEW c \in 0 .. (NDirs - 1), c \in S
        PROVE  c + 1 \in S
    <2> DEFINE d == c + 1
    <2>1. d \in Dirs /\ d \in 0 .. NDirs /\ d - 1 = c /\ c \in 0 .. NDirs /\ c < d
      BY <1>1
    <2>2. Tracks(upto[c], Upto(c), id) /\ upto[c] \in Hits
      BY <1>4, <1>7, <2>1
    <2>3. \A e \in Upto(c) : e.dir <= d /\ e \in Entry
      BY <1>1, <1>5
    <2>4. Upto(d) = Upto(c) \cup {e \in Candidates(fs) : e.dir = d}
      BY <1>1, <1>5
    <2> HIDE DEF d
    <2>5. upto[d] = IF upto[c].class # None THEN upto[c] ELSE ScanDir(upto[c], order[d], id)
      BY <1>4, <2>1
    <2>6. CASE upto[c].class = None
      <3>1. /\ order[d] \in Seq(Entry)
            /\ \A i \in 1 .. Len(order[d]) : order[d][i].dir = d
            /\ {order[d][i] : i \in 1 .. Len(order[d])} = {e \in Candidates(fs) : e.dir = d}
        BY <1>2, <2>1, ReadOrderFacts
      <3>2. upto[d] = ScanDir(upto[c], order[d], id)
        BY <2>5, <2>6
      <3> HIDE DEF Upto
      <3>3. Upto(c) \in SUBSET Entry
        BY <2>3
      <3>4. Tracks(ScanDir(upto[c], order[d], id),
                   Upto(c) \cup {order[d][i] : i \in 1 .. Len(order[d])}, id)
        BY <2>1, <2>2, <2>3, <3>1, <3>3, ScanDirTracks
      <3>5. Tracks(upto[d], Upto(d), id)
        BY <2>4, <3>1, <3>2, <3>4
      <3> QED
        BY <2>1, <3>5 DEF d
    <2>7. CASE upto[c].class # None
      <3> DEFINE h == upto[c].class
      <3>1. upto[d] = upto[c]
        BY <2>5, <2>7
      <3>2. h \in {e \in Upto(c) : ClassHit(e, id)}
            /\ \A e \in {f \in Upto(c) : ClassHit(f, id)} : h.dir <= e.dir
        BY <2>2, <2>7 DEF Tracks, IsEarliest
      <3>3. \A e \in Upto(d) : e \in Upto(c) \/ e.dir = d
        BY <2>4
      <3>4. h.dir <= d
        BY <2>3, <3>2
      <3>5. Upto(c) \subseteq Upto(d)
        BY <2>4
      <3> HIDE DEF Upto
      <3>6. IsEarliest(h, {e \in Upto(d) : ClassHit(e, id)})
        BY <2>7, <3>2, <3>3, <3>4, <3>5 DEF IsEarliest
      <3>7. Tracks(upto[d], Upto(d), id)
        BY <2>7, <3>1, <3>6 DEF Tracks
      <3> QED
        BY <2>1, <3>7 DEF d
    <2> QED
      BY <2>6, <2>7
  <1> HIDE DEF S
  <1>8. 0 .. NDirs \subseteq S
    BY <1>1, <1>6, <1>7, BoundedInduction
  <1>9. Tracks(upto[NDirs], Upto(NDirs), id)
    BY <1>1, <1>8 DEF S
  <1>10. Upto(NDirs) = Candidates(fs)
    BY <1>1, <1>5
  <1>11. upto[NDirs] \in Hits
    BY <1>1, <1>4
  <1> HIDE DEF Upto
  <1> QED
    BY <1>4, <1>9, <1>10, <1>11

----------------------------------------------------------------------------
(* The ladder                                                              *)

\* A set of directories has an earliest one.
LEMMA EarliestDir ==
    ASSUME NEW D \in SUBSET Dirs, D # {}
    PROVE  Earliest(D) \in D /\ \A x \in D : Earliest(D) <= x
  <1>1. D \in SUBSET Nat /\ \A x \in D : x \in Nat
    BY DesktopAssumption DEF Dirs
  <1>2. PICK d \in D : \A x \in D : ~(x < d)
    BY <1>1, LeastNatural
  <1>3. \A x \in D : d <= x
    BY <1>1, <1>2
  <1> QED
    BY <1>3 DEF Earliest

\* An entry of the first tier that is not empty, in its earliest directory.
LEMMA BestOfTier ==
    ASSUME NEW fs, NEW id, NEW k \in 1 .. 4, NEW e \in Tier(fs, id, k),
           \A j \in 1 .. (k - 1) : Tier(fs, id, j) = {},
           \A f \in Tier(fs, id, k) : e.dir <= f.dir
    PROVE  e \in Best(fs, id)
  <1> DEFINE First(m) == Tier(fs, id, m) # {} /\ \A j \in 1 .. m - 1 : Tier(fs, id, j) = {}
             m == CHOOSE i \in 1 .. 4 : First(i)
  <1>1. First(k)
    OBVIOUS
  <1>2. m \in 1 .. 4 /\ First(m)
    BY <1>1
  <1>3. m = k
    <2>1. ~(m < k) /\ ~(k < m)
      <3> HIDE DEF m
      <3> QED
        BY <1>1, <1>2
    <2> HIDE DEF m
    <2> QED
      BY <1>2, <2>1
  <1>4. Best(fs, id) = {x \in Tier(fs, id, m) : \A f \in Tier(fs, id, m) : x.dir <= f.dir}
    BY <1>2 DEF Best
  <1> HIDE DEF m
  <1> QED
    BY <1>3, <1>4

\* What the scan returns, when no file has the name, is the best entry.
LEMMA ScanIsBest ==
    ASSUME NEW fs \in FileSystem, NEW order \in Listings(fs), NEW id,
           Direct(fs, id) = {}
    PROVE  Scan(order, id) \in Best(fs, id)
  <1> DEFINE E == Candidates(fs)
  <1>1. PICK b \in Hits : /\ Tracks(b, E, id)
                          /\ Scan(order, id) = OrElse(b.class, OrElse(b.exec, b.fuzzy))
    BY ScanTracks
  <1>2. Tier(fs, id, 1) = {}
    BY CandidateFacts DEF Tier, Direct, Entry
  <1>3. /\ Tier(fs, id, 2) = {e \in E : ClassHit(e, id)}
        /\ Tier(fs, id, 3) = {e \in E : ExecHit(e, id)}
        /\ Tier(fs, id, 4) = {e \in E : FuzzyHit(e, id)}
    BY DEF Tier
  <1>4. 1 .. (2 - 1) = {1} /\ 1 .. (3 - 1) = {1, 2} /\ 1 .. (4 - 1) = {1, 2, 3}
        /\ 1 .. 4 = {1, 2, 3, 4}
    OBVIOUS
  <1> HIDE DEF E
  <1>5. CASE b.class # None
    <2>1. Scan(order, id) = b.class
      BY <1>1, <1>5 DEF OrElse
    <2>2. b.class \in Tier(fs, id, 2) /\ \A f \in Tier(fs, id, 2) : b.class.dir <= f.dir
      BY <1>1, <1>3, <1>5 DEF Tracks, IsEarliest
    <2>3. \A j \in 1 .. (2 - 1) : Tier(fs, id, j) = {}
      BY <1>2, <1>4
    <2> QED
      BY <1>4, <2>1, <2>2, <2>3, BestOfTier
  <1>6. CASE b.class = None /\ b.exec # None
    <2>1. Scan(order, id) = b.exec
      BY <1>1, <1>6 DEF OrElse
    <2>2. Tier(fs, id, 2) = {} /\ b.exec \in Tier(fs, id, 3)
          /\ \A f \in Tier(fs, id, 3) : b.exec.dir <= f.dir
      BY <1>1, <1>3, <1>6 DEF Tracks, IsEarliest
    <2>3. \A j \in 1 .. (3 - 1) : Tier(fs, id, j) = {}
      BY <1>2, <1>4, <2>2
    <2> QED
      BY <1>4, <2>1, <2>2, <2>3, BestOfTier
  <1>7. CASE b.class = None /\ b.exec = None /\ b.fuzzy # None
    <2>1. Scan(order, id) = b.fuzzy
      BY <1>1, <1>7 DEF OrElse
    <2>2. Tier(fs, id, 2) = {} /\ Tier(fs, id, 3) = {} /\ b.fuzzy \in Tier(fs, id, 4)
          /\ \A f \in Tier(fs, id, 4) : b.fuzzy.dir <= f.dir
      BY <1>1, <1>3, <1>7 DEF Tracks, IsEarliest
    <2>3. \A j \in 1 .. (4 - 1) : Tier(fs, id, j) = {}
      BY <1>2, <1>4, <2>2
    <2> QED
      BY <1>4, <2>1, <2>2, <2>3, BestOfTier
  <1>8. CASE b.class = None /\ b.exec = None /\ b.fuzzy = None
    <2>1. Scan(order, id) = None
      BY <1>1, <1>8 DEF OrElse
    <2>2. Tier(fs, id, 2) = {} /\ Tier(fs, id, 3) = {} /\ Tier(fs, id, 4) = {}
      BY <1>1, <1>3, <1>8 DEF Tracks, IsEarliest
    <2>3. \A k \in 1 .. 4 : Tier(fs, id, k) = {}
      BY <1>2, <1>4, <2>2
    <2> QED
      BY <2>1, <2>3 DEF Best
  <1> QED
    BY <1>5, <1>6, <1>7, <1>8

\* resolve_in returns the best entry of the ladder, whatever the order in which
\* the directories list their files (desktop.rs:431-445).
LEMMA ResolutionsAreBest ==
    ASSUME NEW fs \in FileSystem, NEW id \in ValidIds, NEW e \in Resolutions(fs, id)
    PROVE  e \in Best(fs, id)
  <1>1. CASE Direct(fs, id) # {}
    <2> DEFINE d == Earliest(Direct(fs, id))
    <2>1. Direct(fs, id) \in SUBSET Dirs
      BY DEF Direct
    <2>2. d \in Direct(fs, id) /\ \A x \in Direct(fs, id) : d <= x
      BY <1>1, <2>1, EarliestDir
    <2>3. e = Candidate(fs, d, id)
      BY <1>1 DEF Resolutions
    <2> HIDE DEF d
    <2>4. id \in Stems /\ d \in Dirs /\ IsCandidate(fs, d, id)
      BY <2>2 DEF Direct
    <2>5. e \in Candidates(fs) /\ e.id = id /\ e.dir = d
      BY <2>3, <2>4, CandidateFacts DEF Candidate
    <2>6. Tier(fs, id, 1) = {f \in Candidates(fs) : f.id = id}
      BY DEF Tier
    <2>7. \A f \in Tier(fs, id, 1) : f.dir \in Direct(fs, id)
      BY <2>6, CandidateFacts DEF Direct, Entry
    <2>8. e \in Tier(fs, id, 1) /\ \A f \in Tier(fs, id, 1) : e.dir <= f.dir
      BY <2>2, <2>5, <2>6, <2>7
    <2>9. 1 \in 1 .. 4 /\ \A j \in 1 .. (1 - 1) : Tier(fs, id, j) = {}
      OBVIOUS
    <2> QED
      BY <2>8, <2>9, BestOfTier
  <1>2. CASE Direct(fs, id) = {}
    <2>1. PICK order \in Listings(fs) : e = Scan(order, id)
      BY <1>2 DEF Resolutions, Listings
    <2> QED
      BY <1>2, <2>1, ScanIsBest
  <1> QED
    BY <1>1, <1>2

\* Any answer is a file to be shown, or none.
LEMMA ResolutionsAreFound ==
    ASSUME NEW fs \in FileSystem, NEW id, NEW e \in Resolutions(fs, id)
    PROVE  e \in Option(Entry) /\ WasFound(e)
  <1>1. \A f \in Candidates(fs) : f \in Entry /\ WasFound(f)
    BY CandidateFacts DEF WasFound
  <1>2. WasFound(None)
    BY DEF WasFound
  <1>3. CASE id \notin ValidIds
    BY <1>2, <1>3 DEF Resolutions, Option
  <1>4. CASE id \in ValidIds
    <2>1. e \in Best(fs, id)
      BY <1>4, ResolutionsAreBest
    <2>2. \A k \in 1 .. 4 : Tier(fs, id, k) \subseteq Candidates(fs)
      BY DEF Tier
    <2>3. e = None \/ e \in Candidates(fs)
      <3>1. CASE \A k \in 1 .. 4 : Tier(fs, id, k) = {}
        BY <2>1, <3>1 DEF Best
      <3>2. CASE ~(\A k \in 1 .. 4 : Tier(fs, id, k) = {})
        <4> DEFINE First(k) == Tier(fs, id, k) # {} /\ \A j \in 1 .. k - 1 : Tier(fs, id, j) = {}
                   m == CHOOSE k \in 1 .. 4 : First(k)
        <4>1. \E k \in 1 .. 4 : First(k)
          <5> DEFINE NonEmpty == {k \in 1 .. 4 : Tier(fs, id, k) # {}}
          <5>1. NonEmpty \in SUBSET Nat /\ NonEmpty # {}
            BY <3>2
          <5>2. PICK k \in NonEmpty : \A j \in NonEmpty : ~(j < k)
            <6> HIDE DEF NonEmpty
            <6> QED
              BY <5>1, LeastNatural
          <5> QED
            BY <5>2
        <4>2. m \in 1 .. 4
          BY <4>1
        <4>3. e \in Tier(fs, id, m)
          BY <2>1, <3>2 DEF Best
        <4> HIDE DEF m
        <4> QED
          BY <2>2, <4>2, <4>3
      <3> QED
        BY <3>1, <3>2
    <2> QED
      BY <1>1, <1>2, <2>3 DEF Option
  <1> QED
    BY <1>3, <1>4

----------------------------------------------------------------------------
(* The bridge, the click process and the file system                       *)

Memo == [entry : Option(Entry), age : 0 .. ResolveTtl]

Shown == [entry : Option(Entry)]

\* TypeOK with the sets named.
LEMMA TypeOKIs ==
    TypeOK <=> /\ files \in FileSystem
               /\ edits \in 0 .. MaxEdits
               /\ memo \in [AppIds -> Option(Memo)]
               /\ menu \in Option(Shown)
               /\ wrong \in [AppIds -> 0 .. ResolveTtl + 1]
               /\ launched \in Option([item : Items, exec : DOMAIN Base \cup {None}])
  BY DEF TypeOK, FileSystem, Memo, Shown, Option

\* None is no memo and no menu.
LEMMA NoneIsApart == None \notin Memo /\ None \notin Shown
  <1>1. ASSUME NEW m \in Memo, m = None
        PROVE  FALSE
    <2>1. m = [entry |-> m.entry, age |-> m.age] /\ m.entry \in Entry \cup {None}
          /\ m.age \in 0 .. ResolveTtl
      BY DEF Memo, Option
    <2> QED
      BY <1>1, <2>1, NoneAssumption
  <1>2. ASSUME NEW m \in Shown, m = None
        PROVE  FALSE
    <2>1. m = [entry |-> m.entry] /\ m.entry \in Entry \cup {None}
      BY DEF Shown, Option
    <2> QED
      BY <1>2, <2>1, NoneAssumption
  <1> QED
    BY <1>1, <1>2

\* What of the state a memo, a menu and an age rest on.
MemoInv ==
    \A app \in AppIds : memo[app] # None => WasFound(memo[app].entry)

MenuInv == menu # None => WasFound(menu.entry)

\* The invariant by its parts.
LEMMA IInvIs == IInv <=> TypeOK /\ MemoInv /\ MenuInv /\ AgesInStep
  BY DEF IInv, MemoInv, MenuInv

\* At the start nothing is remembered or shown.
LEMMA InitInv == Init => IInv
  <1> SUFFICES ASSUME Init PROVE IInv
    OBVIOUS
  <1>1. files \in FileSystem
    BY DEF Init, FileSystem
  <1>2. TypeOK
    BY <1>1, TypeOKIs, DesktopAssumption DEF Init, Option
  <1>3. MemoInv /\ MenuInv /\ AgesInStep
    BY DEF Init, MemoInv, MenuInv, AgesInStep, IsFresh
  <1> QED
    BY <1>2, <1>3, IInvIs

\* A fallback is published, out of the memo or resolved afresh.
LEMMA FallbackMenuKeeps ==
    ASSUME IInv, NEW app \in AppIds, FallbackMenu(app)
    PROVE  IInv'
  <1> USE DEF FallbackMenu
  <1>1. TypeOK /\ MemoInv /\ MenuInv /\ AgesInStep
    BY IInvIs
  <1>2. memo \in [AppIds -> Option(Memo)] /\ wrong \in [AppIds -> 0 .. ResolveTtl + 1]
        /\ files \in FileSystem
    BY <1>1, TypeOKIs
  <1>3. CASE IsFresh(memo[app]) /\ UNCHANGED <<memo, wrong>>
    <2>1. memo[app] \in Memo /\ memo[app] # None
      BY <1>2, <1>3 DEF IsFresh, Option
    <2>2. menu' = [entry |-> memo[app].entry] /\ memo[app].entry \in Option(Entry)
          /\ WasFound(memo[app].entry)
      BY <1>1, <1>3, <2>1 DEF MemoInv, Memo
    <2>3. menu' \in Option(Shown) /\ menu'.entry = memo[app].entry
      BY <2>2 DEF Option, Shown
    <2>4. TypeOK'
      BY <1>1, <1>3, <2>3, TypeOKIs DEF TypeOK, Option, FileSystem, Memo, Shown
    <2> QED
      BY <1>1, <1>3, <2>2, <2>3, <2>4 DEF IInv, MemoInv, AgesInStep, IsFresh, WasFound
  <1>4. ASSUME NEW e \in Resolutions(files, app),
               memo' = [memo EXCEPT ![app] = [entry |-> e, age |-> 0]],
               wrong' = [wrong EXCEPT ![app] = 0]
        PROVE  IInv'
    <2> DEFINE m == [entry |-> e, age |-> 0]
    <2>1. e \in Option(Entry) /\ WasFound(e)
      BY <1>2, ResolutionsAreFound
    <2>2. m \in Memo /\ m.entry = e /\ m.age = 0
      BY <2>1, DesktopAssumption DEF Memo
    <2>3. menu' = [entry |-> m.entry]
      BY <1>2, <1>4
    <2>4. menu' \in Shown /\ menu'.entry = e
      BY <2>1, <2>2, <2>3 DEF Shown
    <2> HIDE DEF m
    <2>5. memo' \in [AppIds -> Option(Memo)] /\ memo'[app] = m
          /\ \A a \in AppIds \ {app} : memo'[a] = memo[a]
      BY <1>2, <1>4, <2>2 DEF Option, m
    <2>6. wrong' \in [AppIds -> 0 .. ResolveTtl + 1] /\ wrong'[app] = 0
          /\ \A a \in AppIds \ {app} : wrong'[a] = wrong[a]
      BY <1>2, <1>4, DesktopAssumption
    <2>7. TypeOK'
      BY <1>1, <2>4, <2>5, <2>6 DEF TypeOK, Option, FileSystem, Memo, Shown
    <2>8. MemoInv'
      BY <1>1, <2>1, <2>2, <2>5 DEF MemoInv, WasFound
    <2>9. MenuInv'
      BY <2>1, <2>4 DEF MenuInv, WasFound
    <2>10. AgesInStep'
      BY <1>1, <2>2, <2>5, <2>6 DEF AgesInStep, IsFresh
    <2> QED
      BY <2>7, <2>8, <2>9, <2>10 DEF IInv, MemoInv, MenuInv
  <1> QED
    BY <1>3, <1>4

\* Time passes: a fresh answer is a tick older, and wrong for a tick at most.
LEMMA TickKeeps ==
    ASSUME IInv, Tick
    PROVE  IInv'
  <1>1. TypeOK /\ MemoInv /\ MenuInv /\ AgesInStep
    BY IInvIs
  <1>2. memo \in [AppIds -> Option(Memo)] /\ wrong \in [AppIds -> 0 .. ResolveTtl + 1]
    BY <1>1, TypeOKIs
  <1>3. ASSUME NEW a \in AppIds
        PROVE  /\ memo'[a] \in Option(Memo)
               /\ memo[a] = None => memo'[a] = None
               /\ memo'[a] # None =>
                     /\ memo'[a].entry = memo[a].entry
                     /\ IsFresh(memo[a]) => memo'[a].age = memo[a].age + 1
                     /\ ~IsFresh(memo[a]) => memo'[a] = memo[a]
    <2>1. memo'[a] = IF ~IsFresh(memo[a]) THEN memo[a] ELSE [memo[a] EXCEPT !.age = @ + 1]
      BY DEF Tick
    <2>2. CASE ~IsFresh(memo[a])
      BY <1>2, <2>1, <2>2
    <2>3. CASE IsFresh(memo[a])
      <3> DEFINE m == memo[a]
      <3>1. m \in Memo /\ m # None /\ m.age < ResolveTtl
        BY <1>2, <2>3 DEF IsFresh, Option
      <3>2. memo'[a] = [m EXCEPT !.age = m.age + 1]
        BY <2>1, <2>3, <3>1 DEF Memo
      <3> HIDE DEF m
      <3>3. memo'[a] \in Memo /\ memo'[a].entry = m.entry /\ memo'[a].age = m.age + 1
        BY <3>1, <3>2, DesktopAssumption DEF Memo
      <3> QED
        BY <2>3, <3>1, <3>3 DEF m, Option
    <2> QED
      BY <2>2, <2>3
  <1>4. ASSUME NEW a \in AppIds
        PROVE  wrong'[a] \in 0 .. ResolveTtl + 1 /\ wrong'[a] <= wrong[a] + 1
    BY <1>2, DesktopAssumption DEF Tick
  <1>5. memo' \in [AppIds -> Option(Memo)] /\ wrong' \in [AppIds -> 0 .. ResolveTtl + 1]
    <2>1. memo' = [a \in AppIds |-> memo'[a]] /\ wrong' = [a \in AppIds |-> wrong'[a]]
      BY DEF Tick
    <2> QED
      BY <1>3, <1>4, <2>1
  <1>6. TypeOK'
    BY <1>1, <1>5 DEF TypeOK, Tick, Option, Memo
  <1>7. MemoInv' /\ MenuInv'
    BY <1>1, <1>3 DEF MemoInv, MenuInv, WasFound, Tick
  <1>8. ASSUME NEW a \in AppIds, IsFresh(memo'[a])
        PROVE  wrong'[a] <= memo'[a].age
    <2>1. memo'[a] # None /\ memo'[a].age < ResolveTtl
      BY <1>8 DEF IsFresh
    <2>2. IsFresh(memo[a]) /\ memo'[a].age = memo[a].age + 1
      BY <1>3, <2>1 DEF IsFresh
    <2>3. memo[a].age \in Nat /\ wrong[a] <= memo[a].age
      BY <1>1, <1>2, <2>2 DEF AgesInStep, Option, Memo, IsFresh
    <2> QED
      BY <1>2, <1>4, <2>2, <2>3, DesktopAssumption
  <1>9. AgesInStep'
    BY <1>8 DEF AgesInStep, IsFresh
  <1> QED
    BY <1>6, <1>7, <1>9 DEF IInv, MemoInv, MenuInv

\* Every step keeps the invariant.
LEMMA Inductive == IInv /\ [Next]_vars => IInv'
  <1> SUFFICES ASSUME IInv, [Next]_vars PROVE IInv'
    OBVIOUS
  <1>1. TypeOK /\ MemoInv /\ MenuInv /\ AgesInStep
    BY IInvIs
  <1>2. ASSUME NEW item \in Items, ClickItem(item)
        PROVE  IInv'
    <2>1. PICK e : launched' = [item |-> item, exec |-> Spawned(e, item)]
      BY <1>2 DEF ClickItem
    <2>2. Spawned(e, item) \in DOMAIN Base \cup {None}
      BY DEF Spawned, Runnable
    <2>3. TypeOK'
      BY <1>1, <1>2, <2>1, <2>2 DEF TypeOK, ClickItem
    <2> QED
      BY <1>1, <1>2, <2>3 DEF IInv, MemoInv, MenuInv, AgesInStep, IsFresh, WasFound, ClickItem
  <1>3. ASSUME NEW d \in Dirs, NEW s \in Stems, Edit(d, s)
        PROVE  IInv'
    <2>1. files' \in FileSystem
      BY <1>1, <1>3 DEF TypeOK, FileSystem, Edit
    <2>2. edits' \in 0 .. MaxEdits
      BY <1>1, <1>3, DesktopAssumption DEF TypeOK, Edit
    <2>3. TypeOK'
      BY <1>1, <1>3, <2>1, <2>2 DEF TypeOK, FileSystem, Edit
    <2> QED
      BY <1>1, <1>3, <2>3 DEF IInv, MemoInv, MenuInv, AgesInStep, IsFresh, WasFound, Edit
  <1>4. CASE UNCHANGED vars
    BY <1>1, <1>4 DEF IInv, TypeOK, MemoInv, MenuInv, AgesInStep, IsFresh, WasFound, vars
  <1> QED
    BY <1>2, <1>3, <1>4, FallbackMenuKeeps, TickKeeps DEF Next

\* The inductive invariant of the desktop fallback.
THEOREM Invariant == Spec => []IInv
  BY InitInv, Inductive, PTL DEF Spec

\* Types of the variables; a memo's age never passes its time to live.
THEOREM TypeCorrect == Spec => []TypeOK
  <1>1. IInv => TypeOK
    BY DEF IInv
  <1> QED
    BY <1>1, Invariant, PTL

\* An answer the memo would still give was right less than RESOLVE_TTL ago
\* (desktop.rs:518-520), however often the application is focused and however
\* the files change in between.
THEOREM AnswersAreRecent == Spec => []FallbackIsRecent
  <1>1. ASSUME IInv, NEW app \in AppIds, IsFresh(memo[app])
        PROVE  wrong[app] < ResolveTtl
    <2>1. memo \in [AppIds -> Option(Memo)] /\ wrong \in [AppIds -> 0 .. ResolveTtl + 1]
      BY <1>1, TypeOKIs DEF IInv
    <2>2. memo[app].age \in Nat /\ memo[app].age < ResolveTtl /\ wrong[app] <= memo[app].age
      BY <1>1, <2>1 DEF IInv, AgesInStep, IsFresh, Option, Memo
    <2> QED
      BY <2>1, <2>2, DesktopAssumption
  <1>2. IInv => FallbackIsRecent
    BY <1>1 DEF FallbackIsRecent
  <1> QED
    BY <1>2, Invariant, PTL

\* An application that is resolved afresh gets the best entry of the ladder:
\* the file of that name, then the class, then the program, then the name, and
\* in each the earliest directory.
THEOREM FreshAnswersAreBest == Spec => ResolvesBest
  <1>1. ASSUME IInv, [Next]_vars, NEW app \in AppIds,
               memo'[app] # memo[app], memo'[app].age = 0
        PROVE  memo'[app].entry \in Best(files, app)
    <2>1. memo \in [AppIds -> Option(Memo)] /\ files \in FileSystem
      BY <1>1, TypeOKIs DEF IInv
    <2>2. CASE \E a \in AppIds : FallbackMenu(a)
      <3>1. PICK a \in AppIds : FallbackMenu(a)
        BY <2>2
      <3>2. PICK e \in Resolutions(files, a) :
               memo' = [memo EXCEPT ![a] = [entry |-> e, age |-> 0]]
        BY <1>1, <3>1 DEF FallbackMenu
      <3>3. a = app /\ memo'[app].entry = e
        BY <1>1, <2>1, <3>2
      <3> QED
        BY <2>1, <3>2, <3>3, ResolutionsAreBest, DesktopAssumption
    <2>3. CASE Tick
      <3>1. IsFresh(memo[app]) /\ memo'[app] = [memo[app] EXCEPT !.age = @ + 1]
        BY <1>1, <2>3 DEF Tick
      <3>2. memo[app] \in Memo
        BY <2>1, <3>1 DEF IsFresh, Option
      <3>3. memo'[app].age = memo[app].age + 1 /\ memo[app].age \in Nat
        BY <3>1, <3>2 DEF Memo
      <3> QED
        BY <1>1, <3>3
    <2>4. CASE memo' = memo
      BY <1>1, <2>4
    <2> QED
      BY <1>1, <2>2, <2>3, <2>4 DEF Next, ClickItem, Edit, vars
  <1>2. IInv /\ [Next]_vars
          => (\A app \in AppIds : memo'[app] # memo[app] /\ memo'[app].age = 0
                                    => memo'[app].entry \in Best(files, app))
    BY <1>1
  <1> QED
    BY <1>2, Invariant, PTL DEF Spec, ResolvesBest

\* The name of an intact entry leads the click process back to that entry.
LEMMA IntactIsFoundAgain ==
    ASSUME files \in FileSystem, NEW e \in Entry, e.content.shown, Intact(e)
    PROVE  Resolutions(files, e.id) = {e}
  <1>1. e.id \in Stems /\ e.dir \in Dirs /\ e.content # None
        /\ e = [id |-> e.id, dir |-> e.dir, content |-> e.content]
    BY NoneAssumption DEF Entry
  <1>2. Direct(files, e.id) = {e.dir}
    BY <1>1 DEF Direct, IsCandidate, Intact
  <1>3. Earliest({e.dir}) = e.dir
    BY <1>1, EarliestDir
  <1>4. Candidate(files, e.dir, e.id) = e
    BY <1>1 DEF Candidate, Intact
  <1> QED
    BY <1>2, <1>3, <1>4 DEF Resolutions, Intact

\* A click launches the item that was shown, of the entry that was shown, as
\* long as its file is intact: the click process resolves the entry's own file
\* name, and no other file's class, program or name can take it over.
THEOREM ClicksLaunchShown == Spec => LaunchesShown
  <1>1. ASSUME IInv, [Next]_vars, launched' # None, Intact(menu.entry), vars' # vars
        PROVE  launched'.exec = Spawned(menu.entry, launched'.item)
    <2>1. PICK item \in Items : ClickItem(item)
      BY <1>1 DEF Next, FallbackMenu, Edit, Tick
    <2>2. menu # None /\ menu.entry # None
      BY <2>1 DEF ClickItem
    <2>3. menu.entry \in Entry /\ menu.entry.content.shown
      BY <1>1, <2>2 DEF IInv, WasFound
    <2>4. files \in FileSystem
      BY <1>1, TypeOKIs DEF IInv
    <2>5. PICK e \in Resolutions(files, menu.entry.id) :
             launched' = [item |-> item, exec |-> Spawned(e, item)]
      BY <2>1 DEF ClickItem
    <2>6. e = menu.entry
      BY <1>1, <2>3, <2>4, <2>5, IntactIsFoundAgain
    <2> QED
      BY <2>5, <2>6
  <1>2. IInv /\ [Next]_vars
          => [launched' # None /\ Intact(menu.entry)
                => launched'.exec = Spawned(menu.entry, launched'.item)]_vars
    BY <1>1
  <1> QED
    BY <1>2, Invariant, PTL DEF Spec, LaunchesShown

=============================================================================
