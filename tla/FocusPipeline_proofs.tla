------------------------ MODULE FocusPipeline_proofs ------------------------
(***************************************************************************)
(* Proofs about FocusPipeline and FocusTiming, for all values of their     *)
(* constants: the types of the variables, that the snapshot settles on the *)
(* focused window, that FocusPipeline implements FocusFeed, that the       *)
(* ceiling of the reconnect delay bounds the time without a connection,    *)
(* and the debounce the time a focus value waits.                          *)
(***************************************************************************)
EXTENDS FocusTiming, SequenceTheorems, Induction

----------------------------------------------------------------------------
(* Reading: the recursive function is well defined                         *)

\* g has the first n + 1 values of the recursion.
Start(k) == [known |-> k, values |-> <<>>]

Upto(g, k, s, n) ==
    g = [i \in 0..n |-> IF i = 0 THEN Start(k) ELSE ReadOn(g[i - 1], s[i])]

\* The first values of the recursion exist.
LEMMA UptoExists ==
    ASSUME NEW k, NEW s
    PROVE  \A n \in Nat : \E g : Upto(g, k, s, n)
  <1> DEFINE S == {n \in Nat : \E g : Upto(g, k, s, n)}
  <1>1. 0 \in S
    <2>1. Upto([i \in 0..0 |-> Start(k)], k, s, 0)
      BY DEF Upto
    <2> QED
      BY <2>1
  <1>2. ASSUME NEW n \in Nat, n \in S
        PROVE  n + 1 \in S
    <2>1. PICK g : Upto(g, k, s, n)
      BY <1>2
    <2> DEFINE h == [i \in 0..(n + 1) |-> IF i <= n THEN g[i] ELSE ReadOn(g[n], s[n + 1])]
    <2>2. ASSUME NEW i \in 0..(n + 1)
          PROVE  h[i] = IF i = 0 THEN Start(k) ELSE ReadOn(h[i - 1], s[i])
      <3>1. CASE i = 0
        BY <2>1, <3>1 DEF Upto
      <3>2. CASE i # 0 /\ i <= n
        <4>1. g[i] = ReadOn(g[i - 1], s[i])
          BY <2>1, <3>2 DEF Upto
        <4>2. h[i] = g[i] /\ h[i - 1] = g[i - 1]
          BY <3>2
        <4> QED
          BY <3>2, <4>1, <4>2
      <3>3. CASE i = n + 1
        BY <3>3
      <3> QED
        BY <3>1, <3>2, <3>3
    <2>3. Upto(h, k, s, n + 1)
      BY <2>2 DEF Upto
    <2> HIDE DEF h
    <2> QED
      BY <2>3
  <1> HIDE DEF S
  <1>3. Nat \subseteq S
    BY <1>1, <1>2, NaturalInduction
  <1> QED
    BY <1>3 DEF S

\* There is one choice of them.
LEMMA UptoUnique ==
    ASSUME NEW k, NEW s, NEW n \in Nat, NEW g, NEW h,
           Upto(g, k, s, n), Upto(h, k, s, n + 1)
    PROVE  g[n] = h[n]
  <1> DEFINE S == {i \in Nat : i <= n => g[i] = h[i]}
  <1>1. 0 \in S
    BY DEF Upto
  <1>2. ASSUME NEW i \in Nat, i \in S
        PROVE  i + 1 \in S
    <2> SUFFICES ASSUME i + 1 <= n PROVE g[i + 1] = h[i + 1]
      OBVIOUS
    <2>1. g[i + 1] = ReadOn(g[i], s[i + 1])
      BY DEF Upto
    <2>2. h[i + 1] = ReadOn(h[i], s[i + 1])
      BY DEF Upto
    <2> QED
      BY <1>2, <2>1, <2>2
  <1> HIDE DEF S
  <1>3. Nat \subseteq S
    BY <1>1, <1>2, NaturalInduction
  <1> QED
    BY <1>3 DEF S

\* Reading begins with k and reads event after event.
LEMMA ReadingDefined ==
    ASSUME NEW k, NEW s
    PROVE  /\ Reading(k, s)[0] = Start(k)
           /\ \A n \in Nat : Reading(k, s)[n + 1] = ReadOn(Reading(k, s)[n], s[n + 1])
  <1> DEFINE Rec(f) == f = [n \in Nat |-> IF n = 0 THEN Start(k) ELSE ReadOn(f[n - 1], s[n])]
  <1> DEFINE F(n) == CHOOSE g : Upto(g, k, s, n)
  <1> DEFINE f == [n \in Nat |-> F(n)[n]]
  <1>1. \A n \in Nat : Upto(F(n), k, s, n)
    BY UptoExists
  <1> HIDE DEF F
  <1>2. f[0] = Start(k)
    <2>1. Upto(F(0), k, s, 0)
      BY <1>1
    <2> QED
      BY <2>1 DEF Upto
  <1>3. ASSUME NEW n \in Nat
        PROVE  f[n + 1] = ReadOn(f[n], s[n + 1])
    <2>1. Upto(F(n), k, s, n) /\ Upto(F(n + 1), k, s, n + 1)
      BY <1>1
    <2>2. F(n)[n] = F(n + 1)[n]
      BY <2>1, UptoUnique
    <2>3. F(n + 1)[n + 1] = ReadOn(F(n + 1)[n], s[n + 1])
      BY <2>1 DEF Upto
    <2> QED
      BY <2>2, <2>3
  <1>4. Rec(f)
    <2> SUFFICES ASSUME NEW n \in Nat, n # 0
                 PROVE  f[n] = ReadOn(f[n - 1], s[n])
      BY <1>2
    <2> HIDE DEF f
    <2>1. n - 1 \in Nat /\ (n - 1) + 1 = n
      OBVIOUS
    <2> QED
      BY <1>3, <2>1
  <1> DEFINE r == CHOOSE g : Rec(g)
  <1>5. Rec(r)
    <2> HIDE DEF f, Rec
    <2> QED
      BY <1>4
  <1>6. Reading(k, s) = r
    BY DEF Reading, Start
  <1> HIDE DEF r
  <1>7. r[0] = Start(k) /\ \A n \in Nat : r[n + 1] = ReadOn(r[n], s[n + 1])
    BY <1>5
  <1> QED
    BY <1>6, <1>7

----------------------------------------------------------------------------
(* Events and what reading them yields                                     *)

\* A map of titles, by its domain.
LEMMA TitleMaps ==
    \A k : k \in TitleMap <=> DOMAIN k \subseteq Windows /\ k \in [DOMAIN k -> Titles]
  BY DEF TitleMap

\* An event changes a map of titles to another one.
LEMMA ApplyType ==
    ASSUME NEW k \in TitleMap, NEW e \in Event
    PROVE  Apply(k, e) \in TitleMap
  <1>1. CASE e.kind = "windows"
    BY <1>1 DEF Apply, Event
  <1>2. CASE e.kind = "opened"
    BY <1>2, TitleMaps DEF Apply, Event
  <1>3. CASE e.kind = "closed"
    BY <1>3, TitleMaps DEF Apply, Event
  <1>4. CASE e.kind = "focus"
    BY <1>4 DEF Apply, Event
  <1> QED
    BY <1>1, <1>2, <1>3, <1>4 DEF Event

\* It publishes at most one value.
LEMMA DetectType ==
    ASSUME NEW k \in TitleMap, NEW e \in Event
    PROVE  \/ DetectFocusChange(e, k) = <<>>
           \/ \E v \in FocusValue : DetectFocusChange(e, k) = <<v>>
  <1>1. NoFocus \in FocusValue
    BY DEF FocusValue
  <1>2. ASSUME NEW w, w \in DOMAIN k
        PROVE  FocusOn(w, k[w]) \in FocusValue
    BY <1>2, TitleMaps DEF FocusOn, FocusValue
  <1>3. ASSUME NEW w
        PROVE  \/ EmitFor(w, k) = <<>>
               \/ \E v \in FocusValue : EmitFor(w, k) = <<v>>
    BY <1>2 DEF EmitFor
  <1>4. CASE e.kind = "focus" /\ e.win = None
    BY <1>1, <1>4 DEF DetectFocusChange
  <1>5. CASE e.kind = "focus" /\ e.win # None
    BY <1>3, <1>5 DEF DetectFocusChange
  <1>6. CASE e.kind = "windows"
    BY <1>3, <1>6 DEF DetectFocusChange
  <1>7. CASE e.kind = "opened" /\ e.is_focused
    BY <1>3, <1>7 DEF DetectFocusChange
  <1>8. CASE e.kind = "opened" /\ ~e.is_focused
    BY <1>8 DEF DetectFocusChange
  <1>9. CASE e.kind = "closed"
    BY <1>9 DEF DetectFocusChange
  <1> QED
    BY <1>4, <1>5, <1>6, <1>7, <1>8, <1>9 DEF Event

\* As a sequence.
LEMMA DetectSeq ==
    ASSUME NEW k \in TitleMap, NEW e \in Event
    PROVE  /\ DetectFocusChange(e, k) \in Seq(FocusValue)
           /\ Len(DetectFocusChange(e, k)) <= 1
  <1>1. CASE DetectFocusChange(e, k) = <<>>
    BY <1>1
  <1>2. ASSUME NEW v \in FocusValue, DetectFocusChange(e, k) = <<v>>
        PROVE  /\ <<v>> \in Seq(FocusValue)
               /\ Len(<<v>>) <= 1
    OBVIOUS
  <1> QED
    BY <1>1, <1>2, DetectType

Progress == [known : TitleMap, values : Seq(FocusValue)]

\* One more event read.
LEMMA ReadOnType ==
    ASSUME NEW r \in Progress, NEW e \in Event
    PROVE  ReadOn(r, e) \in Progress
  <1>1. r.known \in TitleMap /\ r.values \in Seq(FocusValue)
    BY DEF Progress
  <1>2. Apply(r.known, e) \in TitleMap
    BY <1>1, ApplyType
  <1>3. DetectFocusChange(e, Apply(r.known, e)) \in Seq(FocusValue)
    BY <1>2, DetectSeq
  <1>4. r.values \o DetectFocusChange(e, Apply(r.known, e)) \in Seq(FocusValue)
    BY <1>1, <1>3, ConcatProperties
  <1> QED
    BY <1>2, <1>4 DEF ReadOn, Progress

\* What is read of the first events depends on them only.
LEMMA ReadingPrefix ==
    ASSUME NEW k, NEW s, NEW t, NEW m \in Nat, \A i \in 1..m : s[i] = t[i]
    PROVE  Reading(k, s)[m] = Reading(k, t)[m]
  <1> DEFINE S == {n \in Nat : n <= m => Reading(k, s)[n] = Reading(k, t)[n]}
  <1>1. 0 \in S
    BY ReadingDefined
  <1>2. ASSUME NEW n \in Nat, n \in S
        PROVE  n + 1 \in S
    <2> SUFFICES ASSUME n + 1 <= m
                 PROVE  Reading(k, s)[n + 1] = Reading(k, t)[n + 1]
      OBVIOUS
    <2>1. s[n + 1] = t[n + 1] /\ Reading(k, s)[n] = Reading(k, t)[n]
      BY <1>2
    <2>2. Reading(k, s)[n + 1] = ReadOn(Reading(k, s)[n], s[n + 1])
      BY ReadingDefined
    <2>3. Reading(k, t)[n + 1] = ReadOn(Reading(k, t)[n], t[n + 1])
      BY ReadingDefined
    <2> QED
      BY <2>1, <2>2, <2>3
  <1> HIDE DEF S
  <1>3. Nat \subseteq S
    BY <1>1, <1>2, NaturalInduction
  <1> QED
    BY <1>3 DEF S

\* All events of s, read from k on.
After(k, s) == Reading(k, s)[Len(s)]

\* No events change nothing and bring no value.
LEMMA AfterEmpty ==
    ASSUME NEW k
    PROVE  After(k, <<>>).known = k /\ After(k, <<>>).values = <<>>
  <1>1. Len(<<>>) = 0
    OBVIOUS
  <1>2. After(k, <<>>) = Start(k)
    BY <1>1, ReadingDefined DEF After
  <1> QED
    BY <1>2 DEF Start

\* One event more is read after all others: events are read in their order.
LEMMA AfterAppend ==
    ASSUME NEW k, NEW s \in Seq(Event), NEW e \in Event
    PROVE  After(k, Append(s, e)) = ReadOn(After(k, s), e)
  <1> DEFINE t == Append(s, e)
  <1>1. Len(s) \in Nat /\ Len(t) = Len(s) + 1 /\ t[Len(s) + 1] = e
    BY AppendProperties, LenProperties
  <1>2. \A i \in 1..Len(s) : s[i] = t[i]
    BY AppendProperties, LenProperties
  <1> HIDE DEF t
  <1>3. Reading(k, s)[Len(s)] = Reading(k, t)[Len(s)]
    <2> DEFINE m == Len(s)
    <2>1. m \in Nat /\ \A i \in 1..m : s[i] = t[i]
      BY <1>1, <1>2
    <2> HIDE DEF m
    <2>2. Reading(k, s)[m] = Reading(k, t)[m]
      BY <2>1, ReadingPrefix
    <2> QED
      BY <2>2 DEF m
  <1>4. Reading(k, t)[Len(s) + 1] = ReadOn(Reading(k, t)[Len(s)], t[Len(s) + 1])
    BY <1>1, ReadingDefined
  <1>5. After(k, t) = ReadOn(After(k, s), e)
    BY <1>1, <1>3, <1>4 DEF After
  <1> QED
    BY <1>5 DEF t

\* Whatever is read of a stream, titles remain titles and values focus values.
LEMMA ReadingType ==
    ASSUME NEW k \in TitleMap, NEW s \in Seq(Event), NEW m \in 0..Len(s)
    PROVE  Reading(k, s)[m] \in Progress
  <1> DEFINE S == {n \in Nat : n <= Len(s) => Reading(k, s)[n] \in Progress}
  <1>1. 0 \in S
    <2>1. Start(k) \in Progress
      BY DEF Start, Progress
    <2> QED
      BY <2>1, ReadingDefined
  <1>2. ASSUME NEW n \in Nat, n \in S
        PROVE  n + 1 \in S
    <2> SUFFICES ASSUME n + 1 <= Len(s) PROVE Reading(k, s)[n + 1] \in Progress
      OBVIOUS
    <2>1. s[n + 1] \in Event
      BY LenProperties, ElementOfSeq
    <2>2. Reading(k, s)[n] \in Progress
      BY <1>2, LenProperties
    <2>3. Reading(k, s)[n + 1] = ReadOn(Reading(k, s)[n], s[n + 1])
      BY ReadingDefined
    <2> QED
      BY <2>1, <2>2, <2>3, ReadOnType
  <1> HIDE DEF S
  <1>3. Nat \subseteq S
    BY <1>1, <1>2, NaturalInduction
  <1> QED
    BY <1>3, LenProperties DEF S

\* So do they after all of it.
LEMMA AfterType ==
    ASSUME NEW k \in TitleMap, NEW s \in Seq(Event)
    PROVE  After(k, s).known \in TitleMap /\ After(k, s).values \in Seq(FocusValue)
  <1>1. Len(s) \in 0..Len(s)
    BY LenProperties
  <1>2. After(k, s) \in Progress
    BY <1>1, ReadingType DEF After
  <1> QED
    BY <1>2 DEF Progress

\* Joining sequences is associative.
LEMMA Joined ==
    ASSUME NEW S, NEW a \in Seq(S), NEW b \in Seq(S), NEW c \in Seq(S)
    PROVE  (a \o b) \o c = a \o (b \o c)
  BY ConcatAssociative, SMT

\* What one event brings is read like any other, whatever was read before it.
LEMMA ReadOnBehind ==
    ASSUME NEW head \in Seq(FocusValue), NEW r, NEW q \in Progress, NEW e \in Event,
           r.known = q.known, r.values = head \o q.values
    PROVE  /\ ReadOn(r, e).known = ReadOn(q, e).known
           /\ ReadOn(r, e).values = head \o ReadOn(q, e).values
  <1> DEFINE new == DetectFocusChange(e, Apply(q.known, e))
  <1>1. q.known \in TitleMap /\ q.values \in Seq(FocusValue)
    BY DEF Progress
  <1>2. new \in Seq(FocusValue)
    BY <1>1, ApplyType, DetectSeq
  <1>3. ReadOn(r, e).values = (head \o q.values) \o new
    BY DEF ReadOn
  <1>4. ReadOn(q, e).values = q.values \o new
    BY DEF ReadOn
  <1>5. ReadOn(r, e).known = ReadOn(q, e).known
    BY DEF ReadOn
  <1> HIDE DEF new
  <1>6. (head \o q.values) \o new = head \o (q.values \o new)
    <2> DEFINE old == q.values
    <2>1. old \in Seq(FocusValue)
      BY <1>1
    <2> HIDE DEF old
    <2>2. (head \o old) \o new = head \o (old \o new)
      BY <1>2, <2>1, Joined
    <2> QED
      BY <2>2 DEF old
  <1> QED
    BY <1>3, <1>4, <1>5, <1>6

\* Reading all events is reading the first, and then the others.
LEMMA AfterTail ==
    ASSUME NEW k \in TitleMap, NEW s \in Seq(Event), s # <<>>
    PROVE  LET first == Apply(k, Head(s))
               rest  == After(first, Tail(s))
           IN  /\ After(k, s).known = rest.known
               /\ After(k, s).values = DetectFocusChange(Head(s), first) \o rest.values
  <1> DEFINE first == Apply(k, Head(s))
             head == DetectFocusChange(Head(s), first)
             t == Tail(s)
             all == Reading(k, s)
             rest == Reading(first, t)
             Same(n) == /\ all[n + 1].known = rest[n].known
                        /\ all[n + 1].values = head \o rest[n].values
             S == {n \in Nat : n <= Len(t) => Same(n)}
  <1>1. /\ Head(s) \in Event /\ t \in Seq(Event) /\ Len(t) \in Nat
        /\ Len(s) = Len(t) + 1 /\ s[1] = Head(s)
    BY HeadTailProperties, LenProperties, ElementOfSeq
  <1>2. \A i \in 1..Len(t) : t[i] = s[i + 1] /\ t[i] \in Event
    BY HeadTailProperties, LenProperties, ElementOfSeq
  <1>3. first \in TitleMap /\ head \in Seq(FocusValue)
    BY <1>1, ApplyType, DetectSeq
  <1>4. all[1] = ReadOn(Start(k), Head(s))
    <2>1. all[0 + 1] = ReadOn(all[0], s[0 + 1]) /\ all[0] = Start(k)
      BY ReadingDefined
    <2> HIDE DEF all
    <2> QED
      BY <1>1, <2>1
  <1>5. ReadOn(Start(k), Head(s)) = [known |-> first, values |-> <<>> \o head]
    BY DEF ReadOn, Start
  <1>6. rest[0] = [known |-> first, values |-> <<>>]
    BY ReadingDefined DEF Start
  <1>7. /\ \A n \in Nat : all[n + 1] = ReadOn(all[n], s[n + 1])
        /\ \A n \in Nat : rest[n + 1] = ReadOn(rest[n], t[n + 1])
    BY ReadingDefined
  <1>8. \A n \in 0..Len(t) : rest[n] \in Progress
    BY <1>1, <1>3, ReadingType
  <1> HIDE DEF first, head, t, all, rest
  <1>9. 0 \in S
    <2>1. <<>> \o head = head /\ head \o <<>> = head
      BY <1>3, ConcatEmptySeq
    <2>2. Same(0)
      BY <1>4, <1>5, <1>6, <2>1
    <2> QED
      BY <2>2
  <1>10. ASSUME NEW n \in Nat, n \in S
         PROVE  n + 1 \in S
    <2> SUFFICES ASSUME n + 1 <= Len(t) PROVE Same(n + 1)
      OBVIOUS
    <2>1. Same(n)
      BY <1>1, <1>10
    <2>2. rest[n] \in Progress /\ t[n + 1] \in Event /\ t[n + 1] = s[(n + 1) + 1]
      BY <1>1, <1>2, <1>8
    <2>3. all[(n + 1) + 1] = ReadOn(all[n + 1], t[n + 1])
      <3>1. n + 1 \in Nat
        OBVIOUS
      <3>2. all[(n + 1) + 1] = ReadOn(all[n + 1], s[(n + 1) + 1])
        BY <1>7, <3>1
      <3> QED
        BY <2>2, <3>2
    <2>4. rest[n + 1] = ReadOn(rest[n], t[n + 1])
      BY <1>7
    <2>5. /\ ReadOn(all[n + 1], t[n + 1]).known = ReadOn(rest[n], t[n + 1]).known
          /\ ReadOn(all[n + 1], t[n + 1]).values = head \o ReadOn(rest[n], t[n + 1]).values
      BY <1>3, <2>1, <2>2, ReadOnBehind
    <2> QED
      BY <2>3, <2>4, <2>5
  <1> HIDE DEF S
  <1>11. Nat \subseteq S
    BY <1>9, <1>10, NaturalInduction
  <1>12. Same(Len(t))
    BY <1>1, <1>11 DEF S
  <1>13. Same(Len(t)) <=> /\ After(k, s).known = After(first, t).known
                          /\ After(k, s).values = head \o After(first, t).values
    BY <1>1 DEF After, all, rest
  <1> QED
    BY <1>12, <1>13 DEF first, head, t

----------------------------------------------------------------------------
(* Type correctness                                                        *)

\* What niri writes are events.
LEMMA EventTypes ==
    /\ \A k \in TitleMap, w \in Windows \cup {None} : WindowsChanged(k, w) \in Event
    /\ \A w \in Windows, t \in Titles, is \in BOOLEAN : WindowOpenedOrChanged(w, t, is) \in Event
    /\ \A w \in Windows : WindowClosed(w) \in Event
    /\ \A w \in Windows \cup {None} : WindowFocusChanged(w) \in Event
  <1>1. \A k \in TitleMap, w \in Windows \cup {None} : WindowsChanged(k, w) \in Event
    BY DEF WindowsChanged, Event
  <1>2. \A w \in Windows, t \in Titles, is \in BOOLEAN : WindowOpenedOrChanged(w, t, is) \in Event
    BY DEF WindowOpenedOrChanged, Event
  <1>3. \A w \in Windows : WindowClosed(w) \in Event
    BY DEF WindowClosed, Event
  <1>4. \A w \in Windows \cup {None} : WindowFocusChanged(w) \in Event
    BY DEF WindowFocusChanged, Event
  <1> QED
    BY <1>1, <1>2, <1>3, <1>4

\* Writing one or two events keeps the stream one of events.
LEMMA WriteType ==
    ASSUME stream \in Seq(Event), eof \in BOOLEAN, NEW evs \in Seq(Event), Write(evs)
    PROVE  stream' \in Seq(Event) /\ eof' = eof
  BY ConcatProperties DEF Write, linkVars

\* Nothing is known of no window.
LEMMA NoTitles == <<>> \in TitleMap /\ DOMAIN <<>> = {}
  BY DEF TitleMap

\* The initial states have the types.
LEMMA TypeInit == Init => TypeOK
  <1> SUFFICES ASSUME Init PROVE TypeOK
    OBVIOUS
  <1>1. NoFocus \in FocusValue
    BY DEF FocusValue
  <1>2. <<>> \in Seq(Event)
    BY EmptySeq
  <1>3. BackoffFloor \in BackoffFloor..BackoffMax /\ 0 \in 0..BackoffMax
    BY DelayAssumption
  <1>4. 0 \in 0..ElapsedMax /\ 0 \in 0..Debounce
    BY DelayAssumption
  <1> QED
    BY <1>1, <1>2, <1>3, <1>4, NoTitles, TitleMaps DEF Init, TypeOK

\* niri's steps keep them.
LEMMA TypeNiri ==
    ASSUME TypeOK, Niri
    PROVE  TypeOK'
  <1>1. BridgeIdles => UNCHANGED <<task, known, backoff, elapsed, timer, focusChan, active, still, snapshot>>
    BY DEF BridgeIdles, sessionVars, activeVars
  <1>2. ASSUME BridgeIdles, up' \in BOOLEAN,
               DOMAIN wins' \subseteq Windows, wins' \in [DOMAIN wins' -> Titles],
               focus' \in DOMAIN wins' \cup {None},
               stream' \in Seq(Event), eof' \in BOOLEAN
        PROVE  TypeOK'
    BY <1>1, <1>2 DEF TypeOK
  <1>3. stream \in Seq(Event) /\ eof \in BOOLEAN
    BY DEF TypeOK
  <1>4. \A e1, e2 \in Event : <<e1>> \in Seq(Event) /\ <<e1, e2>> \in Seq(Event)
    OBVIOUS
  <1>5. ASSUME NEW w \in Windows, NEW t \in Titles, NEW takesFocus \in BOOLEAN,
               OpenWindow(w, t, takesFocus)
        PROVE  TypeOK'
    <2>1. <<WindowOpenedOrChanged(w, t, takesFocus)>> \in Seq(Event)
      BY <1>4, EventTypes
    <2>2. <<WindowFocusChanged(w), WindowOpenedOrChanged(w, t, TRUE)>> \in Seq(Event)
      BY <1>4, EventTypes
    <2>3. stream' \in Seq(Event) /\ eof' = eof
      BY <1>3, <1>5, <2>1, <2>2, WriteType DEF OpenWindow
    <2>4. DOMAIN wins' = DOMAIN wins \cup {w} /\ wins' \in [DOMAIN wins' -> Titles]
      BY <1>5 DEF OpenWindow, TypeOK
    <2>5. focus' \in DOMAIN wins' \cup {None}
      BY <1>5, <2>4 DEF OpenWindow, TypeOK
    <2> QED
      BY <1>2, <1>3, <1>5, <2>3, <2>4, <2>5 DEF OpenWindow, TypeOK
  <1>6. ASSUME NEW w \in Windows, NEW t \in Titles, ChangeTitle(w, t)
        PROVE  TypeOK'
    <2>1. <<WindowOpenedOrChanged(w, t, w = focus)>> \in Seq(Event)
      BY <1>4, EventTypes
    <2>2. stream' \in Seq(Event) /\ eof' = eof
      BY <1>3, <1>6, <2>1, WriteType DEF ChangeTitle
    <2> QED
      BY <1>2, <1>3, <1>6, <2>2 DEF ChangeTitle, TypeOK
  <1>7. ASSUME NEW w \in Windows \cup {None}, MoveFocus(w)
        PROVE  TypeOK'
    <2>1. <<WindowFocusChanged(w)>> \in Seq(Event)
      BY <1>4, EventTypes
    <2>2. stream' \in Seq(Event) /\ eof' = eof
      BY <1>3, <1>7, <2>1, WriteType DEF MoveFocus
    <2> QED
      BY <1>2, <1>3, <1>7, <2>2 DEF MoveFocus, TypeOK
  <1>8. ASSUME NEW w \in Windows, CloseWindow(w)
        PROVE  TypeOK'
    <2>1. <<WindowClosed(w), WindowFocusChanged(None)>> \in Seq(Event) /\ <<WindowClosed(w)>> \in Seq(Event)
      BY <1>4, EventTypes
    <2>2. stream' \in Seq(Event) /\ eof' = eof
      BY <1>3, <1>8, <2>1, WriteType DEF CloseWindow
    <2>3. DOMAIN wins' = DOMAIN wins \ {w} /\ wins' \in [DOMAIN wins' -> Titles]
      BY <1>8 DEF CloseWindow, TypeOK
    <2>4. focus' \in DOMAIN wins' \cup {None}
      BY <1>8, <2>3 DEF CloseWindow, TypeOK
    <2> QED
      BY <1>2, <1>3, <1>8, <2>2, <2>3, <2>4 DEF CloseWindow, TypeOK
  <1>9. CASE NiriDrops
    BY <1>2, <1>9 DEF NiriDrops, niriVars, TypeOK
  <1>10. CASE NiriStops
    <2>1. DOMAIN wins' \subseteq Windows /\ wins' \in [DOMAIN wins' -> Titles]
      BY <1>10, NoTitles, TitleMaps DEF NiriStops
    <2>2. BridgeIdles /\ up' = FALSE /\ focus' = None /\ stream' = stream
      BY <1>10 DEF NiriStops
    <2>3. eof' \in BOOLEAN
      BY <1>10 DEF NiriStops
    <2> QED
      BY <1>2, <1>3, <2>1, <2>2, <2>3
  <1>11. CASE NiriStarts
    BY <1>2, <1>11 DEF NiriStarts, linkVars, TypeOK
  <1> QED
    BY <1>5, <1>6, <1>7, <1>8, <1>9, <1>10, <1>11 DEF Niri

\* The next delay is between the floor and the ceiling.
LEMMA BackoffRange ==
    ASSUME NEW delay \in BackoffFloor..BackoffMax
    PROVE  /\ Grown(delay) \in BackoffFloor..BackoffMax
           /\ \A age : NextBackoff(delay, age) \in BackoffFloor..BackoffMax
  BY DelayAssumption DEF Grown, NextBackoff

\* The bridge's steps and the clock's keep the types.
LEMMA TypeBridge ==
    ASSUME TypeOK, Session \/ WakeActive \/ PublishActive \/ Tick
    PROVE  TypeOK'
  <1> USE DEF niriVars, linkVars, sessionVars, activeVars
  <1>1. CASE Connect
    BY <1>1 DEF Connect, TypeOK
  <1>2. CASE Acknowledge
    <2>1. wins \in TitleMap /\ focus \in Windows \cup {None}
      BY TitleMaps DEF TypeOK
    <2>2. WindowsChanged(wins, focus) \in Event
      BY <2>1, EventTypes
    <2>3. stream' \in Seq(Event)
      BY <1>2, <2>2 DEF Acknowledge
    <2>4. DOMAIN known' \subseteq Windows /\ known' \in [DOMAIN known' -> Titles]
      BY <1>2, NoTitles, TitleMaps DEF Acknowledge
    <2> QED
      BY <1>2, <2>3, <2>4 DEF Acknowledge, TypeOK
  <1>3. CASE ReadEvent
    <2>1. known \in TitleMap /\ Head(stream) \in Event /\ stream' \in Seq(Event)
      BY <1>3, TitleMaps, HeadTailProperties DEF ReadEvent, TypeOK
    <2>2. known' \in TitleMap
      BY <1>3, <2>1, ApplyType DEF ReadEvent
    <2>3. DOMAIN known' \subseteq Windows /\ known' \in [DOMAIN known' -> Titles]
      BY <2>2, TitleMaps
    <2>4. focusChan' \in [val : FocusValue, changed : BOOLEAN]
      <3> DEFINE evt == DetectFocusChange(Head(stream), known')
      <3>1. evt # <<>> => evt[1] \in FocusValue
        BY <2>1, <2>2, DetectType
      <3>2. IF evt = <<>> THEN UNCHANGED focusChan ELSE focusChan' = [val |-> evt[1], changed |-> TRUE]
        BY <1>3 DEF ReadEvent
      <3> HIDE DEF evt
      <3>3. CASE evt = <<>>
        BY <3>2, <3>3 DEF TypeOK
      <3>4. CASE evt # <<>>
        <4> DEFINE v == evt[1]
        <4>1. v \in FocusValue /\ focusChan' = [val |-> v, changed |-> TRUE]
          BY <3>1, <3>2, <3>4
        <4> HIDE DEF v
        <4> QED
          BY <4>1
      <3> QED
        BY <3>3, <3>4
    <2> QED
      BY <1>3, <2>1, <2>3, <2>4 DEF ReadEvent, TypeOK
  <1>4. CASE SessionEnds
    <2>1. backoff' \in BackoffFloor..BackoffMax /\ timer' = backoff'
      BY <1>4, BackoffRange DEF SessionEnds, TypeOK
    <2>2. timer' \in 0..BackoffMax
      BY <2>1, DelayAssumption
    <2>3. stream' \in Seq(Event) /\ eof' \in BOOLEAN
      BY <1>4, EmptySeq DEF SessionEnds
    <2>4. task' = "sleeping" /\ UNCHANGED <<up, wins, focus, known, elapsed, focusChan, active, still, snapshot>>
      BY <1>4 DEF SessionEnds
    <2> QED
      BY <2>1, <2>2, <2>3, <2>4 DEF TypeOK
  <1>5. CASE Retry
    <2>1. backoff' \in BackoffFloor..BackoffMax
      BY <1>5, BackoffRange DEF Retry, TypeOK
    <2>2. elapsed' \in 0..ElapsedMax
      BY <1>5, DelayAssumption DEF Retry
    <2>3. task' = "connecting" /\ UNCHANGED <<up, wins, focus, stream, eof, known, timer, focusChan, active, still, snapshot>>
      BY <1>5 DEF Retry
    <2> QED
      BY <2>1, <2>2, <2>3 DEF TypeOK
  <1>6. CASE WakeActive
    <2>1. focusChan' \in [val : FocusValue, changed : BOOLEAN]
      BY <1>6 DEF WakeActive, TypeOK
    <2>2. still' \in 0..Debounce
      BY <1>6, DelayAssumption DEF WakeActive
    <2> QED
      BY <1>6, <2>1, <2>2 DEF WakeActive, TypeOK
  <1>7. CASE PublishActive
    BY <1>7 DEF PublishActive, TypeOK
  <1>8. CASE Tick
    <2>1. timer' \in 0..BackoffMax
      BY <1>8, DelayAssumption DEF Tick, TypeOK
    <2>2. still' \in 0..Debounce
      BY <1>8, DelayAssumption DEF Tick, TypeOK
    <2>3. elapsed' \in 0..ElapsedMax
      BY <1>8, DelayAssumption DEF Tick, TypeOK
    <2> QED
      BY <1>8, <2>1, <2>2, <2>3 DEF Tick, TypeOK
  <1> QED
    BY <1>1, <1>2, <1>3, <1>4, <1>5, <1>6, <1>7, <1>8 DEF Session

\* Every step keeps them.
LEMMA TypeStep == TypeOK /\ [Next]_vars => TypeOK'
  <1> SUFFICES ASSUME TypeOK, [Next]_vars PROVE TypeOK'
    OBVIOUS
  <1>1. CASE Niri
    BY <1>1, TypeNiri
  <1>2. CASE Session \/ WakeActive \/ PublishActive \/ Tick
    BY <1>2, TypeBridge
  <1>3. CASE UNCHANGED vars
    BY <1>3 DEF vars, niriVars, linkVars, sessionVars, activeVars, TypeOK
  <1> QED
    BY <1>1, <1>2, <1>3 DEF Next, Step

\* The variables have their types, and the reconnect delay stays between the
\* floor and the ceiling, however many sessions fail.
THEOREM TypeCorrect == Spec => []TypeOK
  BY TypeInit, TypeStep, PTL DEF Spec

----------------------------------------------------------------------------
(* The snapshot settles on the focused window                              *)

\* The last of the values, or v if there is none.
LastOf(values, v) == IF values = <<>> THEN v ELSE values[Len(values)]

\* The last value of a sequence joined to another.
LEMMA LastJoined ==
    ASSUME NEW vs \in Seq(FocusValue), NEW x, NEW v
    PROVE  /\ LastOf(vs \o <<>>, v) = LastOf(vs, v)
           /\ LastOf(<<>> \o vs, v) = LastOf(vs, v)
           /\ x \in FocusValue => LastOf(vs \o <<x>>, v) = x
           /\ x \in FocusValue => LastOf(<<x>> \o vs, v) = LastOf(vs, x)
  <1>1. vs \o <<>> = vs /\ <<>> \o vs = vs
    BY ConcatEmptySeq
  <1>2. ASSUME x \in FocusValue
        PROVE  LastOf(vs \o <<x>>, v) = x
    <2>1. vs \o <<x>> = Append(vs, x)
      BY <1>2, AppendIsConcat
    <2>2. /\ Append(vs, x) # <<>>
          /\ Append(vs, x)[Len(Append(vs, x))] = x
      BY <1>2, AppendProperties
    <2> QED
      BY <2>1, <2>2 DEF LastOf
  <1>3. ASSUME x \in FocusValue
        PROVE  LastOf(<<x>> \o vs, v) = LastOf(vs, x)
    <2>1. <<x>> \in Seq(FocusValue) /\ Len(<<x>>) = 1 /\ <<x>>[1] = x
      BY <1>3
    <2>2. CASE vs = <<>>
      <3>1. <<x>> \o vs = <<x>>
        BY <2>1, <2>2, ConcatEmptySeq
      <3> QED
        BY <2>1, <2>2, <3>1 DEF LastOf
    <2>3. CASE vs # <<>>
      <3> DEFINE all == <<x>> \o vs
      <3>1. Len(vs) \in Nat /\ Len(vs) # 0
        BY <2>3, LenProperties, EmptySeq
      <3>2. all \in Seq(FocusValue) /\ Len(all) = 1 + Len(vs)
        BY <2>1, ConcatProperties
      <3>3. all[1 + Len(vs)] = vs[Len(vs)]
        BY <2>1, <3>1, ConcatProperties
      <3>4. all # <<>>
        BY <3>1, <3>2
      <3> HIDE DEF all
      <3>5. LastOf(all, v) = vs[Len(vs)]
        BY <3>2, <3>3, <3>4 DEF LastOf
      <3> QED
        BY <2>3, <3>5 DEF LastOf, all
    <2> QED
      BY <2>2, <2>3
  <1> QED
    BY <1>1, <1>2, <1>3

\* A value that one more event may yield.
LEMMA LastDetected ==
    ASSUME NEW k \in TitleMap, NEW e \in Event, NEW vs \in Seq(FocusValue), NEW v
    PROVE  LET d == DetectFocusChange(e, k)
           IN  /\ LastOf(vs \o d, v) = IF d = <<>> THEN LastOf(vs, v) ELSE d[1]
               /\ LastOf(d \o vs, v) = IF d = <<>> THEN LastOf(vs, v) ELSE LastOf(vs, d[1])
  <1> DEFINE d == DetectFocusChange(e, k)
  <1>1. ASSUME d = <<>>
        PROVE  LastOf(vs \o d, v) = LastOf(vs, v) /\ LastOf(d \o vs, v) = LastOf(vs, v)
    <2> HIDE DEF d
    <2>1. LastOf(vs \o <<>>, v) = LastOf(vs, v) /\ LastOf(<<>> \o vs, v) = LastOf(vs, v)
      BY LastJoined
    <2> QED
      BY <1>1, <2>1
  <1>2. ASSUME NEW x \in FocusValue, d = <<x>>
        PROVE  /\ LastOf(vs \o d, v) = d[1]
               /\ LastOf(d \o vs, v) = LastOf(vs, d[1])
               /\ d # <<>>
    <2>1. d[1] = x /\ d # <<>>
      BY <1>2
    <2>2. LastOf(vs \o <<x>>, v) = x /\ LastOf(<<x>> \o vs, v) = LastOf(vs, x)
      BY LastJoined
    <2> HIDE DEF d
    <2> QED
      BY <1>2, <2>1, <2>2
  <1>3. d = <<>> \/ \E x \in FocusValue : d = <<x>>
    BY DetectType
  <1> HIDE DEF d
  <1>4. /\ LastOf(vs \o d, v) = IF d = <<>> THEN LastOf(vs, v) ELSE d[1]
        /\ LastOf(d \o vs, v) = IF d = <<>> THEN LastOf(vs, v) ELSE LastOf(vs, d[1])
    <2>1. CASE d = <<>>
      BY <1>1, <2>1
    <2>2. CASE \E x \in FocusValue : d = <<x>>
      BY <1>2, <2>2
    <2> QED
      BY <1>3, <2>1, <2>2
  <1> QED
    BY <1>4 DEF d

\* What the events on their way yield, in every state.
LEMMA AllReadType ==
    ASSUME TypeOK
    PROVE  /\ AllRead = After(known, stream)
           /\ AllRead.known \in TitleMap /\ AllRead.values \in Seq(FocusValue)
           /\ Latest = LastOf(AllRead.values, focusChan.val)
           /\ stream = <<>> => AllRead.values = <<>> /\ Latest = focusChan.val
  <1>1. known \in TitleMap /\ stream \in Seq(Event)
    BY TitleMaps DEF TypeOK
  <1>2. AllRead = After(known, stream)
    BY DEF AllRead, After
  <1>3. stream = <<>> => AllRead.values = <<>>
    BY <1>2, AfterEmpty
  <1> QED
    BY <1>1, <1>2, <1>3, AfterType DEF Latest, LastOf

\* niri writes one event.
LEMMA OneMore ==
    ASSUME TypeOK, NEW e \in Event, stream' = stream \o <<e>>,
           UNCHANGED <<known, focusChan>>
    PROVE  LET k == Apply(AllRead.known, e)
               d == DetectFocusChange(e, k)
           IN  /\ AllRead'.known = k
               /\ AllRead'.values = AllRead.values \o d
               /\ k \in TitleMap
               /\ Latest' = IF d = <<>> THEN Latest ELSE d[1]
  <1> DEFINE k == Apply(AllRead.known, e)
             d == DetectFocusChange(e, k)
  <1>1. stream \in Seq(Event) /\ known \in TitleMap
    BY TitleMaps DEF TypeOK
  <1>2. stream' = Append(stream, e)
    BY <1>1, AppendIsConcat
  <1>3. AllRead' = After(known, stream')
    BY DEF AllRead, After
  <1>4. AllRead' = ReadOn(AllRead, e)
    BY <1>1, <1>2, <1>3, AfterAppend, AllReadType
  <1>5. AllRead'.known = k /\ AllRead'.values = AllRead.values \o d
    BY <1>4 DEF ReadOn
  <1>6. k \in TitleMap
    BY ApplyType, AllReadType
  <1>7. Latest' = LastOf(AllRead'.values, focusChan.val)
    BY DEF Latest, LastOf
  <1>8. LastOf(AllRead.values \o d, focusChan.val) = IF d = <<>> THEN Latest ELSE d[1]
    BY <1>6, AllReadType, LastDetected
  <1> QED
    BY <1>5, <1>6, <1>7, <1>8

\* niri writes two.
LEMMA TwoMore ==
    ASSUME TypeOK, NEW e \in Event, NEW f \in Event, stream' = stream \o <<e, f>>,
           UNCHANGED <<known, focusChan>>
    PROVE  LET k == Apply(AllRead.known, e)
               d == DetectFocusChange(e, k)
               l == Apply(k, f)
               c == DetectFocusChange(f, l)
           IN  /\ AllRead'.known = l
               /\ AllRead'.values = (AllRead.values \o d) \o c
               /\ k \in TitleMap /\ l \in TitleMap
               /\ Latest' = IF c # <<>> THEN c[1] ELSE IF d # <<>> THEN d[1] ELSE Latest
  <1> DEFINE k == Apply(AllRead.known, e)
             d == DetectFocusChange(e, k)
             l == Apply(k, f)
             c == DetectFocusChange(f, l)
             one == Append(stream, e)
             mid == ReadOn(AllRead, e)
  <1>1. stream \in Seq(Event) /\ known \in TitleMap
    BY TitleMaps DEF TypeOK
  <1>2. one \in Seq(Event) /\ stream' = Append(one, f)
    BY <1>1
  <1>3. AllRead' = After(known, stream')
    BY DEF AllRead, After
  <1>4. mid = After(known, one)
    BY <1>1, AfterAppend, AllReadType
  <1>5. AllRead' = ReadOn(mid, f)
    BY <1>2, <1>3, <1>4, AfterAppend
  <1>6. mid.known = k /\ mid.values = AllRead.values \o d
    BY DEF ReadOn
  <1>7. AllRead'.known = l /\ AllRead'.values = mid.values \o c
    BY <1>5, <1>6 DEF ReadOn
  <1>8. k \in TitleMap /\ l \in TitleMap
    BY ApplyType, AllReadType
  <1>9. AllRead.values \in Seq(FocusValue) /\ mid.values \in Seq(FocusValue)
    <2>1. d \in Seq(FocusValue)
      BY <1>8, DetectSeq
    <2> QED
      BY <1>6, <2>1, AllReadType, ConcatProperties
  <1>10. LastOf(mid.values, focusChan.val) = IF d = <<>> THEN Latest ELSE d[1]
    BY <1>6, <1>8, <1>9, AllReadType, LastDetected
  <1>11. LastOf(mid.values \o c, focusChan.val)
            = IF c = <<>> THEN LastOf(mid.values, focusChan.val) ELSE c[1]
    BY <1>8, <1>9, LastDetected
  <1>12. Latest' = LastOf(AllRead'.values, focusChan.val)
    BY DEF Latest, LastOf
  <1> HIDE DEF k, d, l, c, mid
  <1>13. /\ AllRead'.values = (AllRead.values \o d) \o c
         /\ Latest' = IF c # <<>> THEN c[1] ELSE IF d # <<>> THEN d[1] ELSE Latest
    BY <1>6, <1>7, <1>10, <1>11, <1>12
  <1> QED
    BY <1>7, <1>8, <1>13 DEF k, d, l, c

\* Adding nothing, or one value, to what is on its way.
LEMMA Adding ==
    ASSUME TypeOK
    PROVE  /\ AllRead.values \o <<>> = AllRead.values
           /\ \A x : AllRead.values \o <<x>> = Append(AllRead.values, x)
  <1> DEFINE vs == AllRead.values
  <1>1. vs \in Seq(FocusValue)
    BY AllReadType
  <1> HIDE DEF vs
  <1>2. vs \o <<>> = vs /\ \A x : vs \o <<x>> = Append(vs, x)
    BY <1>1
  <1> QED
    BY <1>2 DEF vs

\* A change of windows or focus reaches the bridge: the session will know it,
\* and what it publishes last is the focused window; it publishes nothing
\* besides.
Delivered ==
    /\ AllRead'.known = wins'
    /\ focus' \notin Pidless \cup {None} => Latest' = Focused'
    /\ \/ AllRead'.values = AllRead.values
       \/ AllRead'.values = Append(AllRead.values, Focused')

\* What the steps of niri and the bridge keep, besides the types.
Kept == LinkInSession /\ ReadsWindows /\ ReadsFocus /\ Forwarded

\* A window that opens.
LEMMA KeptOpen ==
    ASSUME IInv, NEW w \in Windows, NEW t \in Titles, NEW takesFocus \in BOOLEAN,
           OpenWindow(w, t, takesFocus), Linked
    PROVE  Delivered
  <1> DEFINE opened == WindowOpenedOrChanged(w, t, takesFocus)
             early == WindowFocusChanged(w)
  <1>1. TypeOK /\ AllRead.known = wins /\ UNCHANGED <<known, focusChan>> /\ w \notin DOMAIN wins
    BY DEF IInv, ReadsWindows, OpenWindow, BridgeIdles, sessionVars
  <1>2. opened \in Event /\ early \in Event
    BY EventTypes
  <1>3. Apply(wins, early) = wins
    BY DEF Apply, WindowFocusChanged
  <1>4. Apply(wins, opened) = wins'
    BY DEF Apply, WindowOpenedOrChanged, OpenWindow
  <1>5. w \in DOMAIN wins' /\ wins'[w] = t /\ \A x \in DOMAIN wins : wins'[x] = wins[x]
    BY <1>1 DEF OpenWindow
  <1>6. focus' = (IF takesFocus THEN w ELSE focus) /\ focus \in DOMAIN wins \cup {None}
    BY <1>1 DEF OpenWindow, TypeOK
  <1>7. DetectFocusChange(opened, wins')
            = IF takesFocus /\ w \notin Pidless THEN <<FocusOn(w, t)>> ELSE <<>>
    BY <1>5 DEF DetectFocusChange, WindowOpenedOrChanged, EmitFor
  <1>8. w # None
    BY WindowAssumption
  <1>9. DetectFocusChange(early, wins) = <<>>
    BY <1>1, <1>8 DEF DetectFocusChange, WindowFocusChanged, EmitFor
  <1>10. takesFocus => Focused' = FocusOn(w, t)
    BY <1>5, <1>6, <1>8 DEF Focused
  <1>11. ~takesFocus /\ focus # None => Focused' = Focused
    BY <1>5, <1>6 DEF Focused
  <1>12. focus \notin Pidless \cup {None} => Latest = Focused
    BY DEF IInv, ReadsFocus
  <1>13. ASSUME AllRead'.known = wins',
                Latest' = IF takesFocus /\ w \notin Pidless THEN FocusOn(w, t) ELSE Latest,
                takesFocus /\ w \notin Pidless => AllRead'.values = Append(AllRead.values, FocusOn(w, t)),
                ~(takesFocus /\ w \notin Pidless) => AllRead'.values = AllRead.values
         PROVE  Delivered
    <2>1. CASE takesFocus
      <3>1. focus' = w /\ Focused' = FocusOn(w, t)
        BY <1>6, <1>10, <2>1
      <3>2. w \notin Pidless => Latest' = Focused' /\ AllRead'.values = Append(AllRead.values, Focused')
        BY <1>13, <2>1, <3>1
      <3>3. w \in Pidless => AllRead'.values = AllRead.values
        BY <1>13, <2>1
      <3> QED
        BY <1>13, <3>1, <3>2, <3>3 DEF Delivered
    <2>2. CASE ~takesFocus
      <3>1. Latest' = Latest /\ AllRead'.values = AllRead.values /\ focus' = focus
        BY <1>6, <1>13, <2>2
      <3> QED
        BY <1>11, <1>12, <1>13, <2>2, <3>1 DEF Delivered
    <2> QED
      BY <2>1, <2>2
  <1> HIDE DEF opened, early
  <1>14. CASE stream' = stream \o <<opened>>
    <2>1. AllRead'.known = wins'
      BY <1>1, <1>2, <1>4, <1>14, OneMore
    <2>2. LET d == DetectFocusChange(opened, wins')
          IN  Latest' = IF d = <<>> THEN Latest ELSE d[1]
      BY <1>1, <1>2, <1>4, <1>14, OneMore
    <2>3. Latest' = IF takesFocus /\ w \notin Pidless THEN FocusOn(w, t) ELSE Latest
      BY <1>7, <2>2
    <2>4. AllRead'.values = AllRead.values \o DetectFocusChange(opened, wins')
      BY <1>1, <1>2, <1>4, <1>14, OneMore
    <2>5. /\ takesFocus /\ w \notin Pidless => AllRead'.values = Append(AllRead.values, FocusOn(w, t))
          /\ ~(takesFocus /\ w \notin Pidless) => AllRead'.values = AllRead.values
      BY <1>1, <1>7, <2>4, Adding
    <2> QED
      BY <1>13, <2>1, <2>3, <2>5
  <1>15. CASE takesFocus /\ stream' = stream \o <<early, opened>>
    <2>1. AllRead'.known = wins'
      BY <1>1, <1>2, <1>3, <1>4, <1>15, TwoMore
    <2>2. LET d == DetectFocusChange(early, wins)
              c == DetectFocusChange(opened, wins')
          IN  Latest' = IF c # <<>> THEN c[1] ELSE IF d # <<>> THEN d[1] ELSE Latest
      BY <1>1, <1>2, <1>3, <1>4, <1>15, TwoMore
    <2>3. Latest' = IF takesFocus /\ w \notin Pidless THEN FocusOn(w, t) ELSE Latest
      BY <1>7, <1>9, <2>2
    <2>4. AllRead'.values = (AllRead.values \o DetectFocusChange(early, wins))
                                \o DetectFocusChange(opened, wins')
      BY <1>1, <1>2, <1>3, <1>4, <1>15, TwoMore
    <2>5. /\ takesFocus /\ w \notin Pidless => AllRead'.values = Append(AllRead.values, FocusOn(w, t))
          /\ ~(takesFocus /\ w \notin Pidless) => AllRead'.values = AllRead.values
      BY <1>1, <1>7, <1>9, <2>4, Adding
    <2> QED
      BY <1>13, <2>1, <2>3, <2>5
  <1>16. \/ stream' = stream \o <<opened>>
         \/ takesFocus /\ stream' = stream \o <<early, WindowOpenedOrChanged(w, t, TRUE)>>
    BY DEF OpenWindow, Write, Linked, opened, early
  <1>17. takesFocus => WindowOpenedOrChanged(w, t, TRUE) = opened
    BY DEF opened
  <1> QED
    BY <1>14, <1>15, <1>16, <1>17

\* A title that changes.
LEMMA KeptTitle ==
    ASSUME IInv, NEW w \in Windows, NEW t \in Titles, ChangeTitle(w, t), Linked
    PROVE  Delivered
  <1> DEFINE changed == WindowOpenedOrChanged(w, t, w = focus)
  <1>1. /\ TypeOK /\ AllRead.known = wins /\ UNCHANGED <<known, focusChan, focus>>
        /\ w \in DOMAIN wins /\ focus \in DOMAIN wins \cup {None}
    BY DEF IInv, ReadsWindows, ChangeTitle, BridgeIdles, sessionVars, TypeOK
  <1>2. changed \in Event
    BY EventTypes
  <1>3. wins' = [wins EXCEPT ![w] = t]
    BY DEF ChangeTitle
  <1>4. Apply(wins, changed) = wins'
    BY <1>1, <1>3 DEF Apply, WindowOpenedOrChanged
  <1>5. wins'[w] = t /\ w \in DOMAIN wins' /\ \A x \in DOMAIN wins : x # w => wins'[x] = wins[x]
    BY <1>1, <1>3
  <1>6. DetectFocusChange(changed, wins')
            = IF w = focus /\ w \notin Pidless THEN <<FocusOn(w, t)>> ELSE <<>>
    BY <1>5 DEF DetectFocusChange, WindowOpenedOrChanged, EmitFor
  <1>7. w # None
    BY WindowAssumption
  <1>8. w = focus => Focused' = FocusOn(w, t)
    BY <1>1, <1>5, <1>7 DEF Focused
  <1>9. w # focus => Focused' = Focused
    BY <1>1, <1>5 DEF Focused
  <1>10. focus \notin Pidless \cup {None} => Latest = Focused
    BY DEF IInv, ReadsFocus
  <1> HIDE DEF changed
  <1>11. stream' = stream \o <<changed>>
    BY DEF ChangeTitle, Write, Linked, changed
  <1>12. AllRead'.known = wins'
    BY <1>1, <1>2, <1>4, <1>11, OneMore
  <1>13. LET d == DetectFocusChange(changed, wins')
         IN  Latest' = IF d = <<>> THEN Latest ELSE d[1]
    BY <1>1, <1>2, <1>4, <1>11, OneMore
  <1>14. Latest' = IF w = focus /\ w \notin Pidless THEN FocusOn(w, t) ELSE Latest
    BY <1>6, <1>13
  <1>15. AllRead'.values = AllRead.values \o DetectFocusChange(changed, wins')
    BY <1>1, <1>2, <1>4, <1>11, OneMore
  <1>16. AllRead'.values = IF w = focus /\ w \notin Pidless
                           THEN Append(AllRead.values, FocusOn(w, t)) ELSE AllRead.values
    BY <1>1, <1>6, <1>15, Adding
  <1> QED
    BY <1>1, <1>8, <1>9, <1>10, <1>12, <1>14, <1>16 DEF Delivered

\* Focus that moves.
LEMMA KeptFocus ==
    ASSUME IInv, NEW w \in Windows \cup {None}, MoveFocus(w), Linked
    PROVE  Delivered
  <1> DEFINE moved == WindowFocusChanged(w)
  <1>1. /\ TypeOK /\ AllRead.known = wins /\ UNCHANGED <<known, focusChan, wins>>
        /\ w \in DOMAIN wins \cup {None} /\ focus' = w
    BY DEF IInv, ReadsWindows, MoveFocus, BridgeIdles, sessionVars
  <1>2. moved \in Event
    BY EventTypes
  <1>3. Apply(wins, moved) = wins'
    BY <1>1 DEF Apply, WindowFocusChanged
  <1>4. w \notin Pidless \cup {None} => DetectFocusChange(moved, wins') = <<FocusOn(w, wins[w])>>
    BY <1>1 DEF DetectFocusChange, WindowFocusChanged, EmitFor
  <1>5. w # None => Focused' = FocusOn(w, wins[w])
    BY <1>1 DEF Focused
  <1> HIDE DEF moved
  <1>6. stream' = stream \o <<moved>>
    BY DEF MoveFocus, Write, Linked, moved
  <1>7. AllRead'.known = wins'
    BY <1>1, <1>2, <1>3, <1>6, OneMore
  <1>8. LET d == DetectFocusChange(moved, wins')
        IN  Latest' = IF d = <<>> THEN Latest ELSE d[1]
    BY <1>1, <1>2, <1>3, <1>6, OneMore
  <1>9. w \notin Pidless \cup {None} => Latest' = FocusOn(w, wins[w])
    BY <1>4, <1>8
  <1>10. AllRead'.values = AllRead.values \o DetectFocusChange(moved, wins')
    BY <1>1, <1>2, <1>3, <1>6, OneMore
  <1>11. \/ DetectFocusChange(moved, wins') = <<>>
         \/ DetectFocusChange(moved, wins') = <<Focused'>>
    BY <1>1, <1>5 DEF DetectFocusChange, WindowFocusChanged, EmitFor, Focused, moved
  <1>12. \/ AllRead'.values = AllRead.values
         \/ AllRead'.values = Append(AllRead.values, Focused')
    BY <1>1, <1>10, <1>11, Adding
  <1> QED
    BY <1>1, <1>5, <1>7, <1>9, <1>12 DEF Delivered

\* A window that closes.
LEMMA KeptClose ==
    ASSUME IInv, NEW w \in Windows, CloseWindow(w), Linked
    PROVE  Delivered
  <1> DEFINE closed == WindowClosed(w)
             moved == WindowFocusChanged(None)
  <1>1. TypeOK /\ AllRead.known = wins /\ UNCHANGED <<known, focusChan>>
    BY DEF IInv, ReadsWindows, CloseWindow, BridgeIdles, sessionVars
  <1>2. closed \in Event /\ moved \in Event
    BY EventTypes
  <1>3. wins' = [x \in DOMAIN wins \ {w} |-> wins[x]]
    BY DEF CloseWindow
  <1>4. Apply(wins, closed) = wins' /\ Apply(wins', moved) = wins'
    BY <1>3 DEF Apply, WindowClosed, WindowFocusChanged
  <1>5. DetectFocusChange(closed, wins') = <<>>
    BY DEF DetectFocusChange, WindowClosed
  <1>6. focus \in DOMAIN wins \cup {None}
    BY <1>1 DEF TypeOK
  <1>7. focus # None /\ focus # w => wins'[focus] = wins[focus]
    BY <1>3, <1>6
  <1>8. focus \notin Pidless \cup {None} => Latest = Focused
    BY DEF IInv, ReadsFocus
  <1> HIDE DEF closed, moved
  <1>9. CASE w = focus
    <2>1. focus' = None /\ stream' = stream \o <<closed, moved>>
      BY <1>9 DEF CloseWindow, Write, Linked, closed, moved
    <2>2. AllRead'.known = wins'
      BY <1>1, <1>2, <1>4, <2>1, TwoMore
    <2>3. AllRead'.values = (AllRead.values \o DetectFocusChange(closed, wins'))
                                \o DetectFocusChange(moved, wins')
      BY <1>1, <1>2, <1>4, <2>1, TwoMore
    <2>4. DetectFocusChange(moved, wins') = <<Focused'>>
      BY <2>1 DEF DetectFocusChange, WindowFocusChanged, Focused, moved
    <2>5. AllRead'.values = Append(AllRead.values, Focused')
      BY <1>1, <1>5, <2>3, <2>4, Adding
    <2> QED
      BY <2>1, <2>2, <2>5 DEF Delivered
  <1>10. CASE w # focus
    <2>1. focus' = focus /\ stream' = stream \o <<closed>>
      BY <1>10 DEF CloseWindow, Write, Linked, closed
    <2>2. AllRead'.known = wins'
      BY <1>1, <1>2, <1>4, <2>1, OneMore
    <2>3. Latest' = Latest
      BY <1>1, <1>2, <1>4, <1>5, <2>1, OneMore
    <2>4. focus # None => Focused' = Focused
      BY <1>7, <1>10, <2>1 DEF Focused
    <2>5. AllRead'.values = AllRead.values \o DetectFocusChange(closed, wins')
      BY <1>1, <1>2, <1>4, <2>1, OneMore
    <2>6. AllRead'.values = AllRead.values
      BY <1>1, <1>5, <2>5, Adding
    <2> QED
      BY <1>8, <2>1, <2>2, <2>3, <2>4, <2>6 DEF Delivered
  <1> QED
    BY <1>9, <1>10

\* What niri does.
LEMMA KeptNiri ==
    ASSUME IInv, Niri
    PROVE  Kept'
  <1>1. BridgeIdles => UNCHANGED <<task, known, focusChan, active, snapshot>>
    BY DEF BridgeIdles, sessionVars, activeVars
  <1>2. LinkInSession /\ Forwarded
    BY DEF IInv
  <1>3. ASSUME BridgeIdles, eof' = eof, ~Linked => stream' = stream,
               Linked => Delivered
        PROVE  Kept'
    <2>1. Linked' <=> Linked
      BY <1>1, <1>3 DEF Linked
    <2>2. LinkInSession'
      BY <1>1, <1>2, <1>3 DEF LinkInSession, Linked
    <2>3. Forwarded'
      BY <1>1, <1>2, <1>3 DEF Forwarded
    <2>4. ReadsWindows' /\ ReadsFocus'
      BY <1>3, <2>1 DEF ReadsWindows, ReadsFocus, Delivered
    <2> QED
      BY <2>2, <2>3, <2>4 DEF Kept
  <1>4. ASSUME NEW evs, Write(evs)
        PROVE  eof' = eof /\ (~Linked => stream' = stream)
    BY <1>4 DEF Write, Linked, linkVars
  <1>5. ASSUME NEW w \in Windows, NEW t \in Titles, NEW takesFocus \in BOOLEAN,
               OpenWindow(w, t, takesFocus)
        PROVE  Kept'
    <2>1. eof' = eof /\ (~Linked => stream' = stream) /\ BridgeIdles
      BY <1>4, <1>5 DEF OpenWindow
    <2> QED
      BY <1>3, <1>5, <2>1, KeptOpen
  <1>6. ASSUME NEW w \in Windows, NEW t \in Titles, ChangeTitle(w, t)
        PROVE  Kept'
    <2>1. eof' = eof /\ (~Linked => stream' = stream) /\ BridgeIdles
      BY <1>4, <1>6 DEF ChangeTitle
    <2> QED
      BY <1>3, <1>6, <2>1, KeptTitle
  <1>7. ASSUME NEW w \in Windows \cup {None}, MoveFocus(w)
        PROVE  Kept'
    <2>1. eof' = eof /\ (~Linked => stream' = stream) /\ BridgeIdles
      BY <1>4, <1>7 DEF MoveFocus
    <2> QED
      BY <1>3, <1>7, <2>1, KeptFocus
  <1>8. ASSUME NEW w \in Windows, CloseWindow(w)
        PROVE  Kept'
    <2>1. eof' = eof /\ (~Linked => stream' = stream) /\ BridgeIdles
      BY <1>4, <1>8 DEF CloseWindow
    <2> QED
      BY <1>3, <1>8, <2>1, KeptClose
  <1>9. CASE NiriDrops
    <2>1. ~Linked' /\ eof' /\ task' \in {"awaiting", "driving"} /\ stream' = stream /\ BridgeIdles
      BY <1>1, <1>9 DEF NiriDrops, Linked
    <2> QED
      BY <1>1, <1>2, <2>1 DEF Kept, LinkInSession, ReadsWindows, ReadsFocus, Forwarded
  <1>10. CASE NiriStops
    <2>1. ~Linked' /\ eof' = (task' \in {"awaiting", "driving"}) /\ stream' = stream /\ BridgeIdles
      BY <1>1, <1>10 DEF NiriStops, Linked
    <2> QED
      BY <1>1, <1>2, <2>1 DEF Kept, LinkInSession, ReadsWindows, ReadsFocus, Forwarded
  <1>11. CASE NiriStarts
    <2>1. BridgeIdles /\ UNCHANGED <<eof, stream, wins, focus>>
      BY <1>11 DEF NiriStarts, linkVars
    <2>2. AllRead' = AllRead /\ Latest' = Latest /\ Focused' = Focused
      BY <1>1, <2>1 DEF AllRead, Latest, Focused
    <2> QED
      BY <1>3, <2>1, <2>2 DEF IInv, ReadsWindows, ReadsFocus, Delivered
  <1> QED
    BY <1>5, <1>6, <1>7, <1>8, <1>9, <1>10, <1>11 DEF Niri

\* What is on its way after an event is read, from what was before.
LEMMA ReadOne ==
    ASSUME TypeOK, ReadEvent
    PROVE  LET d == DetectFocusChange(Head(stream), known')
           IN  /\ AllRead.known = AllRead'.known
               /\ AllRead.values = d \o AllRead'.values
               /\ Latest' = Latest
               /\ \/ d = <<>> /\ UNCHANGED focusChan
                  \/ \E x \in FocusValue : d = <<x>> /\ focusChan' = [val |-> x, changed |-> TRUE]
  <1> DEFINE d == DetectFocusChange(Head(stream), known')
  <1>1. /\ stream # <<>> /\ stream' = Tail(stream) /\ known' = Apply(known, Head(stream))
        /\ IF d = <<>> THEN UNCHANGED focusChan
           ELSE focusChan' = [val |-> d[1], changed |-> TRUE]
    BY DEF ReadEvent
  <1>2. known \in TitleMap /\ stream \in Seq(Event) /\ Head(stream) \in Event
    BY <1>1, TitleMaps, HeadTailProperties DEF TypeOK
  <1>3. TypeOK' /\ known' \in TitleMap
    <2>1. TypeOK'
      BY TypeBridge DEF Session
    <2> QED
      BY <1>1, <1>2, <2>1, ApplyType
  <1>4. AllRead' = After(known', stream')
    BY DEF AllRead, After
  <1>5. AllRead.known = AllRead'.known /\ AllRead.values = d \o AllRead'.values
    BY <1>1, <1>2, <1>4, AfterTail, AllReadType
  <1>6. AllRead'.values \in Seq(FocusValue)
    BY <1>1, <1>2, <1>3, <1>4, AfterType, HeadTailProperties
  <1>7. LastOf(d \o AllRead'.values, focusChan.val)
            = IF d = <<>> THEN LastOf(AllRead'.values, focusChan.val)
              ELSE LastOf(AllRead'.values, d[1])
    BY <1>2, <1>3, <1>6, LastDetected
  <1>8. Latest' = LastOf(AllRead'.values, focusChan'.val)
    BY DEF Latest, LastOf
  <1>9. Latest = LastOf(AllRead.values, focusChan.val)
    BY AllReadType
  <1>10. d = <<>> \/ \E x \in FocusValue : d = <<x>>
    BY <1>2, <1>3, DetectType
  <1> HIDE DEF d
  <1>11. Latest' = Latest
    <2>1. CASE d = <<>>
      BY <1>1, <1>5, <1>7, <1>8, <1>9, <2>1
    <2>2. CASE d # <<>>
      BY <1>1, <1>5, <1>7, <1>8, <1>9, <2>2
    <2> QED
      BY <2>1, <2>2
  <1>12. ASSUME NEW x \in FocusValue, d = <<x>>
         PROVE  focusChan' = [val |-> x, changed |-> TRUE]
    BY <1>1, <1>12
  <1>13. \/ d = <<>> /\ UNCHANGED focusChan
         \/ \E x \in FocusValue : d = <<x>> /\ focusChan' = [val |-> x, changed |-> TRUE]
    BY <1>1, <1>10, <1>12
  <1> QED
    BY <1>5, <1>11, <1>13 DEF d

\* What niri sends first: the burst that seeds the session.
LEMMA Burst ==
    ASSUME TypeOK, Acknowledge
    PROVE  /\ AllRead'.known = wins
           /\ AllRead'.values = EmitFor(focus, wins)
  <1> DEFINE e == WindowsChanged(wins, focus)
  <1>1. wins \in TitleMap /\ focus \in Windows \cup {None}
    BY TitleMaps DEF TypeOK
  <1>2. e \in Event
    BY <1>1, EventTypes
  <1>3. e.kind = "windows" /\ e.titles = wins /\ e.win = focus
    BY DEF WindowsChanged
  <1>4. Apply(<<>>, e) = wins /\ DetectFocusChange(e, wins) = EmitFor(focus, wins)
    BY <1>3 DEF Apply, DetectFocusChange
  <1> HIDE DEF e
  <1>5. <<>> \in Seq(Event) /\ Append(<<>>, e) = <<e>>
    BY <1>2
  <1>6. After(<<>>, <<e>>) = ReadOn(After(<<>>, <<>>), e)
    BY <1>2, <1>5, AfterAppend
  <1>7. After(<<>>, <<>>).known = <<>> /\ After(<<>>, <<>>).values = <<>>
    BY AfterEmpty
  <1>8. DetectFocusChange(e, wins) \in Seq(FocusValue)
    BY <1>1, <1>2, DetectSeq
  <1>9. After(<<>>, <<e>>).known = wins /\ After(<<>>, <<e>>).values = <<>> \o EmitFor(focus, wins)
    <2> DEFINE none == After(<<>>, <<>>)
    <2>1. none.known = <<>> /\ none.values = <<>>
      BY <1>7
    <2> HIDE DEF none
    <2>2. /\ ReadOn(none, e).known = Apply(none.known, e)
          /\ ReadOn(none, e).values = none.values \o DetectFocusChange(e, Apply(none.known, e))
      BY DEF ReadOn
    <2>3. ReadOn(none, e).known = wins /\ ReadOn(none, e).values = <<>> \o EmitFor(focus, wins)
      BY <1>4, <2>1, <2>2
    <2> QED
      BY <1>6, <2>3 DEF none
  <1>10. <<>> \o EmitFor(focus, wins) = EmitFor(focus, wins)
    BY <1>4, <1>8, ConcatEmptySeq
  <1>11. AllRead' = After(<<>>, <<e>>)
    BY DEF AllRead, After, Acknowledge, e
  <1> QED
    BY <1>9, <1>10, <1>11

\* What the bridge and the clock do.
LEMMA KeptBridge ==
    ASSUME IInv, Session \/ WakeActive \/ PublishActive \/ Tick
    PROVE  Kept'
  <1> USE DEF niriVars, linkVars, sessionVars, activeVars
  <1>1. TypeOK /\ LinkInSession /\ ReadsWindows /\ ReadsFocus /\ Forwarded
    BY DEF IInv
  <1>2. ASSUME UNCHANGED <<stream, known, wins, focus, task, eof>>, focusChan'.val = focusChan.val
        PROVE  ReadsWindows' /\ ReadsFocus' /\ LinkInSession'
    <2>1. AllRead' = AllRead /\ Latest' = Latest /\ Focused' = Focused
      BY <1>2 DEF AllRead, Latest, Focused
    <2> QED
      BY <1>1, <1>2, <2>1 DEF ReadsWindows, ReadsFocus, LinkInSession, Linked
  <1>3. ASSUME ~Linked' PROVE ReadsWindows' /\ ReadsFocus'
    BY <1>3 DEF ReadsWindows, ReadsFocus
  <1>4. CASE Connect
    BY <1>1, <1>3, <1>4 DEF Connect, Kept, LinkInSession, Forwarded, Linked
  <1>5. CASE Acknowledge
    <2>1. AllRead'.known = wins' /\ AllRead'.values = EmitFor(focus, wins)
      BY <1>1, <1>5, Burst DEF Acknowledge
    <2>2. focus \in DOMAIN wins \cup {None} /\ UNCHANGED <<wins, focus, focusChan, active, snapshot>>
      BY <1>1, <1>5 DEF Acknowledge, TypeOK
    <2>3. ASSUME focus \notin Pidless \cup {None} PROVE Latest' = Focused'
      <3>1. AllRead'.values = <<FocusOn(focus, wins[focus])>>
        BY <2>1, <2>2, <2>3 DEF EmitFor
      <3> QED
        BY <2>2, <2>3, <3>1 DEF Latest, Focused
    <2>4. LinkInSession' /\ Forwarded'
      BY <1>1, <1>5 DEF Acknowledge, LinkInSession, Forwarded
    <2> QED
      BY <2>1, <2>2, <2>3, <2>4 DEF Kept, ReadsWindows, ReadsFocus
  <1>6. CASE ReadEvent
    <2>1. AllRead'.known = AllRead.known /\ Latest' = Latest
      BY <1>1, <1>6, ReadOne
    <2>2. UNCHANGED <<wins, focus, eof, task, active, snapshot>>
      BY <1>6 DEF ReadEvent
    <2>3. Focused' = Focused
      BY <2>2 DEF Focused
    <2>4. Forwarded'
      BY <1>1, <1>6, <2>2, ReadOne DEF Forwarded
    <2>5. LinkInSession'
      BY <1>1, <1>6, <2>2 DEF LinkInSession, ReadEvent
    <2> QED
      BY <1>1, <2>1, <2>2, <2>3, <2>4, <2>5 DEF Kept, ReadsWindows, ReadsFocus, Linked
  <1>7. CASE SessionEnds
    BY <1>1, <1>3, <1>7 DEF SessionEnds, Kept, LinkInSession, Forwarded, Linked
  <1>8. CASE Retry
    BY <1>1, <1>3, <1>8 DEF Retry, Kept, LinkInSession, Forwarded, Linked
  <1>9. CASE WakeActive
    <2>1. focusChan'.val = focusChan.val /\ active' = "debouncing"
      BY <1>1, <1>9 DEF WakeActive, TypeOK
    <2> QED
      BY <1>2, <1>9, <2>1 DEF WakeActive, Kept, Forwarded
  <1>10. CASE PublishActive
    <2>1. focusChan'.val = focusChan.val /\ snapshot' = focusChan.val
      BY <1>1, <1>10 DEF PublishActive, TypeOK
    <2> QED
      BY <1>2, <1>10, <2>1 DEF PublishActive, Kept, Forwarded
  <1>11. CASE Tick
    BY <1>1, <1>2, <1>11 DEF Tick, Kept, Forwarded
  <1> QED
    BY <1>4, <1>5, <1>6, <1>7, <1>8, <1>9, <1>10, <1>11 DEF Session

\* At the start.
LEMMA KeptInit == Init => Kept
  BY DEF Init, Kept, LinkInSession, ReadsWindows, ReadsFocus, Forwarded, Linked

\* Every step keeps it all.
LEMMA KeptStep == IInv /\ [Next]_vars => IInv'
  <1> SUFFICES ASSUME IInv, [Next]_vars PROVE IInv'
    OBVIOUS
  <1>1. TypeOK'
    BY TypeStep DEF IInv
  <1>2. CASE Niri
    BY <1>1, <1>2, KeptNiri DEF Kept, IInv
  <1>3. CASE Session \/ WakeActive \/ PublishActive \/ Tick
    BY <1>1, <1>3, KeptBridge DEF Kept, IInv
  <1>4. CASE UNCHANGED vars
    <2>1. AllRead' = AllRead /\ Latest' = Latest /\ Focused' = Focused
      BY <1>4 DEF AllRead, Latest, Focused, vars, niriVars, linkVars, sessionVars
    <2>2. UNCHANGED <<stream, eof, task, wins, focus, focusChan, active, snapshot>>
      BY <1>4 DEF vars, niriVars, linkVars, sessionVars, activeVars
    <2> QED
      BY <1>1, <2>1, <2>2 DEF IInv, LinkInSession, ReadsWindows, ReadsFocus, Forwarded, Linked
  <1> QED
    BY <1>2, <1>3, <1>4 DEF Next, Step

\* The invariant that says why.
THEOREM Invariant == Spec => []IInv
  <1>1. Init => IInv
    BY TypeInit, KeptInit DEF IInv, Kept
  <1> QED
    BY <1>1, KeptStep, PTL DEF Spec

\* Once nothing is on its way, the snapshot is the focused window with its
\* present title: after any number of reconnects, bursts, reordered and
\* superseded events (drive_events_with, active.rs run).
THEOREM SettlesOnFocus == Spec => []SettledOnFocusedWindow
  <1>1. IInv => SettledOnFocusedWindow
    <2> SUFFICES ASSUME IInv, Settled, focus \notin Pidless \cup {None}
                 PROVE  snapshot = Focused
      BY DEF SettledOnFocusedWindow
    <2>1. Latest = Focused
      BY DEF IInv, ReadsFocus, Linked, Settled
    <2>2. Latest = focusChan.val
      BY AllReadType DEF IInv, Settled
    <2> QED
      BY <2>1, <2>2 DEF IInv, Forwarded, Settled
  <1> QED
    BY <1>1, Invariant, PTL

----------------------------------------------------------------------------
(* The pipeline implements FocusFeed                                       *)

\* The value active.rs has still to publish.
Pending == IF focusChan.changed \/ active = "debouncing" THEN <<focusChan.val>> ELSE <<>>

\* The values under way: the one active.rs has still to publish, then those
\* the unread events will bring; all of them are focus values.
LEMMA UnderwayIs ==
    ASSUME TypeOK
    PROVE  /\ Underway = Pending \o AllRead.values
           /\ Pending \in Seq(FocusValue) /\ AllRead.values \in Seq(FocusValue)
           /\ Focused \in FocusValue
  <1>1. focusChan.val \in FocusValue
    BY DEF TypeOK
  <1>2. Pending \in Seq(FocusValue)
    BY <1>1 DEF Pending
  <1>3. Focused \in FocusValue
    BY DEF TypeOK, Focused, FocusValue, FocusOn
  <1> QED
    BY <1>2, <1>3, AllReadType DEF Underway, Pending

\* What the unread events will bring, and what niri has, are focus values.
LEMMA UnderwayTypes ==
    TypeOK => AllRead.values \in Seq(FocusValue) /\ Focused \in FocusValue
  BY UnderwayIs

\* After a step.
LEMMA UnderwayTypesNext ==
    TypeOK' => (AllRead.values \in Seq(FocusValue) /\ Focused \in FocusValue)'
  BY UnderwayTypes, PTL

\* What stands still.
LEMMA Unmoved ==
    ASSUME UNCHANGED <<wins, focus, stream, known, focusChan, active, snapshot>>
    PROVE  UNCHANGED <<Focused, Underway, snapshot>>
  BY DEF Focused, Underway, AllRead

\* niri's steps: a change of the focused window or its title is observed if it
\* can be, and missed if not.
LEMMA FeedNiri ==
    ASSUME IInv, Niri
    PROVE  [Feed!Next]_<<Focused, Underway, snapshot>>
  <1>1. BridgeIdles => UNCHANGED <<task, known, focusChan, active, snapshot>>
    BY DEF BridgeIdles, sessionVars, activeVars
  <1>2. TypeOK /\ TypeOK'
    BY TypeNiri DEF IInv
  <1>3. Focused' \in FocusValue
    BY <1>2, UnderwayTypesNext
  <1>4. ASSUME BridgeIdles, stream' = stream
        PROVE  Feed!Miss
    BY <1>1, <1>3, <1>4 DEF Feed!Miss, Underway, AllRead
  <1>5. ASSUME BridgeIdles, Delivered
        PROVE  Feed!Miss \/ Feed!Observe
    <2>1. snapshot' = snapshot /\ Pending' = Pending
      BY <1>1, <1>5 DEF Pending
    <2>2. Underway = Pending \o AllRead.values /\ Underway' = Pending \o AllRead'.values
      BY <1>2, <2>1, UnderwayIs DEF Underway, Pending
    <2>3. CASE AllRead'.values = AllRead.values
      <3>1. Underway' = Underway
        BY <2>2, <2>3
      <3> QED
        BY <1>3, <2>1, <3>1 DEF Feed!Miss
    <2>4. CASE AllRead'.values = Append(AllRead.values, Focused')
      <3> DEFINE vs == AllRead.values
                 x == Focused'
      <3>1. Pending \in Seq(FocusValue) /\ vs \in Seq(FocusValue) /\ x \in FocusValue
        BY <1>2, <1>3, UnderwayIs
      <3>2. Underway = Pending \o vs /\ Underway' = Pending \o Append(vs, x)
        BY <2>2, <2>4
      <3> HIDE DEF vs, x
      <3>3. Pending \o Append(vs, x) = Append(Pending \o vs, x)
        BY <3>1
      <3>4. Underway' = Append(Underway, Focused')
        BY <3>2, <3>3 DEF x
      <3> QED
        BY <1>3, <2>1, <3>4 DEF Feed!Observe
    <2> QED
      BY <1>5, <2>3, <2>4 DEF Delivered
  <1>6. ASSUME NEW evs, Write(evs), ~Linked
        PROVE  stream' = stream
    BY <1>6 DEF Write, Linked, linkVars
  <1>7. Feed!Miss \/ Feed!Observe
    <2>1. ASSUME NEW w \in Windows, NEW t \in Titles, NEW takesFocus \in BOOLEAN,
                 OpenWindow(w, t, takesFocus)
          PROVE  BridgeIdles /\ (stream' = stream \/ Delivered)
      <3>1. BridgeIdles /\ (~Linked => stream' = stream)
        BY <1>6, <2>1 DEF OpenWindow
      <3> QED
        BY <2>1, <3>1, KeptOpen
    <2>2. ASSUME NEW w \in Windows, NEW t \in Titles, ChangeTitle(w, t)
          PROVE  BridgeIdles /\ (stream' = stream \/ Delivered)
      <3>1. BridgeIdles /\ (~Linked => stream' = stream)
        BY <1>6, <2>2 DEF ChangeTitle
      <3> QED
        BY <2>2, <3>1, KeptTitle
    <2>3. ASSUME NEW w \in Windows \cup {None}, MoveFocus(w)
          PROVE  BridgeIdles /\ (stream' = stream \/ Delivered)
      <3>1. BridgeIdles /\ (~Linked => stream' = stream)
        BY <1>6, <2>3 DEF MoveFocus
      <3> QED
        BY <2>3, <3>1, KeptFocus
    <2>4. ASSUME NEW w \in Windows, CloseWindow(w)
          PROVE  BridgeIdles /\ (stream' = stream \/ Delivered)
      <3>1. BridgeIdles /\ (~Linked => stream' = stream)
        BY <1>6, <2>4 DEF CloseWindow
      <3> QED
        BY <2>4, <3>1, KeptClose
    <2>5. ASSUME NiriDrops \/ NiriStops \/ NiriStarts
          PROVE  BridgeIdles /\ stream' = stream
      BY <2>5 DEF NiriDrops, NiriStops, NiriStarts, linkVars
    <2> QED
      BY <1>4, <1>5, <2>1, <2>2, <2>3, <2>4, <2>5 DEF Niri
  <1> QED
    BY <1>7 DEF Feed!Next

\* The bridge's steps: the burst observes the focus again, a value read
\* supersedes the one before, and active.rs shows the value it waited with.
LEMMA FeedBridge ==
    ASSUME IInv, Session \/ WakeActive \/ PublishActive \/ Tick
    PROVE  [Feed!Next]_<<Focused, Underway, snapshot>>
  <1> USE DEF niriVars, linkVars, sessionVars, activeVars
  <1>1. TypeOK /\ TypeOK' /\ LinkInSession
    BY TypeBridge DEF IInv
  <1>2. /\ Underway = Pending \o AllRead.values /\ Underway' = Pending' \o AllRead'.values
        /\ Pending \in Seq(FocusValue) /\ AllRead.values \in Seq(FocusValue)
        /\ AllRead'.values \in Seq(FocusValue) /\ Focused \in FocusValue
    BY <1>1, UnderwayIs, UnderwayTypesNext DEF Underway, Pending
  <1>3. CASE Connect \/ Retry \/ Tick
    BY <1>3, Unmoved DEF Connect, Retry, Tick
  <1>4. CASE Acknowledge
    <2>1. UNCHANGED <<wins, focus, focusChan, active, snapshot>> /\ stream = <<>>
      BY <1>1, <1>4 DEF Acknowledge, LinkInSession
    <2>2. Pending' = Pending /\ Focused' = Focused /\ AllRead.values = <<>>
      BY <1>1, <2>1, AllReadType DEF Pending, Focused
    <2>3. AllRead'.values = EmitFor(focus, wins)
      BY <1>1, <1>4, Burst
    <2>4. Underway = Pending
      BY <1>2, <2>2, ConcatEmptySeq
    <2>5. CASE focus \in DOMAIN wins \ Pidless
      <3>1. focus # None
        <4>1. DOMAIN wins \subseteq Windows
          BY <1>1 DEF TypeOK
        <4> QED
          BY <2>5, <4>1, WindowAssumption
      <3>2. AllRead'.values = <<Focused>>
        BY <2>3, <2>5, <3>1 DEF EmitFor, Focused
      <3>3. Underway' = Append(Underway, Focused)
        BY <1>2, <2>2, <2>4, <3>2, AppendIsConcat
      <3> QED
        BY <2>1, <2>2, <3>3 DEF Feed!Next, Feed!Resync
    <2>6. CASE focus \notin DOMAIN wins \ Pidless
      <3>1. AllRead'.values = <<>>
        BY <2>3, <2>6 DEF EmitFor
      <3>2. Underway' = Underway
        BY <1>2, <2>2, <2>4, <3>1, ConcatEmptySeq
      <3> QED
        BY <2>1, <2>2, <3>2
    <2> QED
      BY <2>5, <2>6
  <1>5. CASE ReadEvent
    <2> DEFINE d == DetectFocusChange(Head(stream), known')
    <2>1. UNCHANGED <<wins, focus, active, snapshot>>
      BY <1>5 DEF ReadEvent
    <2>2. Focused' = Focused
      BY <2>1 DEF Focused
    <2>3. /\ AllRead.values = d \o AllRead'.values
          /\ \/ d = <<>> /\ UNCHANGED focusChan
             \/ \E x \in FocusValue : d = <<x>> /\ focusChan' = [val |-> x, changed |-> TRUE]
      BY <1>1, <1>5, ReadOne
    <2> HIDE DEF d
    <2>4. CASE d = <<>> /\ UNCHANGED focusChan
      <3>1. AllRead'.values = AllRead.values
        BY <1>2, <2>3, <2>4, ConcatEmptySeq
      <3>2. Pending' = Pending
        BY <2>1, <2>4 DEF Pending
      <3>3. Underway' = Underway
        BY <1>2, <3>1, <3>2
      <3> QED
        BY <2>1, <2>2, <3>3
    <2>5. ASSUME NEW x \in FocusValue, d = <<x>>, focusChan' = [val |-> x, changed |-> TRUE]
          PROVE  [Feed!Next]_<<Focused, Underway, snapshot>>
      <3> DEFINE rest == AllRead'.values
                 later == <<x>> \o rest
      <3>1. Pending' = <<x>> /\ Underway' = later /\ Underway = Pending \o later
        BY <1>2, <2>3, <2>5 DEF Pending
      <3>2. rest \in Seq(FocusValue)
        BY <1>2
      <3> HIDE DEF rest
      <3>3. later \in Seq(FocusValue) /\ Len(later) >= 1
        BY <3>2
      <3> HIDE DEF later
      <3>4. CASE Pending = <<>>
        <4>1. Underway' = Underway
          BY <3>1, <3>3, <3>4, ConcatEmptySeq
        <4> QED
          BY <2>1, <2>2, <4>1
      <3>5. CASE Pending = <<focusChan.val>>
        <4> DEFINE v == focusChan.val
        <4>1. v \in FocusValue
          BY <1>1 DEF TypeOK
        <4>2. Underway = <<v>> \o later
          BY <3>1, <3>5
        <4> HIDE DEF v
        <4>3. Len(<<v>> \o later) > 1 /\ Tail(<<v>> \o later) = later
          BY <3>3, <4>1
        <4>4. Len(Underway) > 1 /\ Underway' = Tail(Underway)
          BY <3>1, <4>2, <4>3
        <4> QED
          BY <2>1, <2>2, <4>4 DEF Feed!Next, Feed!Skip
      <3> QED
        BY <3>4, <3>5 DEF Pending
    <2> QED
      BY <2>3, <2>4, <2>5
  <1>6. CASE SessionEnds
    <2>1. stream = <<>> /\ stream' = <<>>
      BY <1>1, <1>6 DEF SessionEnds, SessionFailed, LinkInSession
    <2> QED
      BY <1>6, <2>1, Unmoved DEF SessionEnds
  <1>7. CASE WakeActive
    <2>1. /\ UNCHANGED <<wins, focus, stream, known, snapshot>>
          /\ focusChan.changed /\ active' = "debouncing" /\ focusChan'.val = focusChan.val
      BY <1>1, <1>7 DEF WakeActive, TypeOK
    <2>2. Focused' = Focused /\ Underway' = Underway
      BY <2>1 DEF Focused, Underway, AllRead
    <2> QED
      BY <2>1, <2>2
  <1>8. CASE PublishActive
    <2> DEFINE v == focusChan.val
               rest == AllRead.values
    <2>1. /\ UNCHANGED <<wins, focus, stream, known>> /\ snapshot' = v
          /\ active = "debouncing" /\ active' = "waiting" /\ focusChan'.changed = FALSE
      BY <1>1, <1>8 DEF PublishActive, TypeOK
    <2>2. Focused' = Focused /\ AllRead'.values = rest
      BY <2>1 DEF Focused, AllRead
    <2>3. Underway = <<v>> \o rest /\ Underway' = <<>> \o rest
      BY <1>2, <2>1, <2>2 DEF Pending
    <2>4. v \in FocusValue /\ rest \in Seq(FocusValue)
      BY <1>1, <1>2 DEF TypeOK
    <2> HIDE DEF v, rest
    <2>5. <<>> \o rest = rest
      BY <2>4, ConcatEmptySeq
    <2>6. <<v>> \o rest # <<>> /\ Head(<<v>> \o rest) = v /\ Tail(<<v>> \o rest) = rest
      BY <2>4
    <2>7. Underway # <<>> /\ snapshot' = Head(Underway) /\ Underway' = Tail(Underway)
      BY <2>1, <2>3, <2>5, <2>6
    <2> QED
      BY <2>2, <2>7 DEF Feed!Next, Feed!Show
  <1> QED
    BY <1>3, <1>4, <1>5, <1>6, <1>7, <1>8 DEF Session

\* At the start.
LEMMA FeedInit == Init => Feed!Init
  <1> SUFFICES ASSUME Init PROVE Feed!Init
    OBVIOUS
  <1>1. TypeOK /\ stream = <<>>
    BY TypeInit DEF Init
  <1>2. Underway = Pending \o <<>> /\ Pending = <<>>
    BY <1>1, UnderwayIs, AllReadType DEF Init, Pending
  <1>3. Underway = <<>>
    BY <1>2
  <1> QED
    BY <1>3 DEF Feed!Init, Init, Focused

\* The pipeline implements FocusFeed: the active loop is shown focus values
\* that niri had, in the order niri had them; what a reconnect loses is missed
\* and what a burst supersedes is skipped, and nothing else happens.
THEOREM Refines == Spec => ImplementsFeed
  <1>1. IInv /\ [Next]_vars => [Feed!Next]_<<Focused, Underway, snapshot>>
    <2> SUFFICES ASSUME IInv, [Next]_vars
                 PROVE  [Feed!Next]_<<Focused, Underway, snapshot>>
      OBVIOUS
    <2>1. CASE Niri
      BY <2>1, FeedNiri
    <2>2. CASE Session \/ WakeActive \/ PublishActive \/ Tick
      BY <2>2, FeedBridge
    <2>3. CASE UNCHANGED vars
      BY <2>3, Unmoved DEF vars, niriVars, linkVars, sessionVars, activeVars
    <2> QED
      BY <2>1, <2>2, <2>3 DEF Next, Step
  <1> QED
    BY <1>1, FeedInit, Invariant, PTL DEF Spec, ImplementsFeed, Feed!Spec, Feed!vars

----------------------------------------------------------------------------
(* FocusTiming                                                             *)

\* The clock only observes: what FocusPipeline does is all that is done.
LEMMA TimingStep == [NextTiming]_timingVars => [Next]_vars
  BY DEF NextTiming, Next, timingVars

\* At the start.
LEMMA TimingInit == InitTiming => IInvTiming
  <1> SUFFICES ASSUME InitTiming PROVE IInvTiming
    OBVIOUS
  <1>1. TypeOK /\ task = "connecting"
    BY TypeInit DEF InitTiming, Init
  <1>2. calm = 0 /\ CalmMax \in Nat
    BY DelayAssumption DEF InitTiming, CalmMax
  <1>3. TypeOKTiming
    BY <1>1, <1>2 DEF TypeOKTiming
  <1>4. SleepsInTime
    BY <1>1, <1>2, DelayAssumption DEF SleepsInTime
  <1> QED
    BY <1>3, <1>4 DEF IInvTiming

\* What the clock and the delays are.
LEMMA TimingTypes ==
    ASSUME TypeOKTiming
    PROVE  /\ calm \in Nat /\ calm <= BackoffMax + 1
           /\ timer \in Nat /\ BackoffMax \in Nat
           /\ TypeOK
  BY DelayAssumption DEF TypeOKTiming, TypeOK, CalmMax

\* Each kind of step keeps the type of the clock.
LEMMA ClockTypes == TypeOKTiming /\ [NextTiming]_timingVars => TypeOKTiming'
  <1> SUFFICES ASSUME TypeOKTiming, [NextTiming]_timingVars PROVE TypeOKTiming'
    OBVIOUS
  <1>1. TypeOK'
    BY TimingTypes, TimingStep, TypeStep
  <1>2. calm' = 0 \/ calm' = calm \/ (calm < CalmMax /\ calm' = calm + 1)
    BY DEF NextTiming, timingVars
  <1>3. calm' \in 0..CalmMax
    BY <1>2, TimingTypes DEF CalmMax
  <1> QED
    BY <1>1, <1>3 DEF TypeOKTiming

\* A sleep begins with no time since the failure behind it, and ends with
\* none left.
LEMMA SleepsStep ==
    ASSUME IInvTiming, NextTiming
    PROVE  SleepsInTime'
  <1> USE DEF niriVars, linkVars, sessionVars, activeVars
  <1>1. SleepsInTime /\ TypeOKTiming
    BY DEF IInvTiming
  <1>2. calm \in Nat /\ timer \in Nat /\ BackoffMax \in Nat
    BY <1>1, TimingTypes
  <1>3. CASE Tick /\ (calm' = 0 \/ calm' = calm \/ calm' = calm + 1)
    <2>1. task # "connecting" /\ task' = task /\ (task = "sleeping" => timer > 0 /\ timer' = timer - 1)
      BY <1>3 DEF Tick
    <2>2. task = "sleeping" => calm' + timer' <= BackoffMax
      BY <1>1, <1>2, <1>3, <2>1 DEF SleepsInTime
    <2> QED
      BY <2>1, <2>2 DEF SleepsInTime
  <1>4. CASE Step /\ calm' = IF ~up \/ eof \/ (task = "awaiting" /\ task' = "sleeping") THEN 0 ELSE calm
    <2>1. calm' = 0 \/ calm' = calm
      BY <1>4
    <2>2. ASSUME UNCHANGED <<task, timer>>
          PROVE  SleepsInTime'
      BY <1>1, <1>2, <2>1, <2>2 DEF SleepsInTime
    <2>3. CASE Niri
      <3>1. UNCHANGED <<task, timer>>
        BY <2>3 DEF Niri, OpenWindow, ChangeTitle, MoveFocus, CloseWindow, NiriDrops, NiriStops,
                    NiriStarts, BridgeIdles
      <3> QED
        BY <2>2, <3>1
    <2>4. CASE Connect \/ Acknowledge
      BY <2>4 DEF Connect, Acknowledge, SleepsInTime
    <2>5. CASE ReadEvent \/ WakeActive \/ PublishActive
      <3>1. UNCHANGED <<task, timer>>
        BY <2>5 DEF ReadEvent, WakeActive, PublishActive
      <3> QED
        BY <2>2, <3>1
    <2>6. CASE SessionEnds
      <3>1. task' = "sleeping" /\ timer' = backoff' /\ calm' = 0
        BY <1>4, <2>6 DEF SessionEnds, SessionFailed
      <3>2. backoff' \in BackoffFloor..BackoffMax
        BY <1>1, <2>6, TimingTypes, BackoffRange DEF SessionEnds, TypeOK
      <3>3. backoff' <= BackoffMax /\ backoff' \in Nat
        BY <3>2, DelayAssumption
      <3> QED
        BY <3>1, <3>3 DEF SleepsInTime
    <2>7. CASE Retry
      <3>1. task = "sleeping" /\ timer = 0 /\ task' = "connecting"
        BY <2>7 DEF Retry
      <3> QED
        BY <1>1, <1>2, <2>1, <3>1 DEF SleepsInTime
    <2> QED
      BY <1>4, <2>3, <2>4, <2>5, <2>6, <2>7 DEF Step, Session
  <1> QED
    BY <1>3, <1>4 DEF NextTiming

\* Every step keeps them.
LEMMA TimingKept == IInvTiming /\ [NextTiming]_timingVars => IInvTiming'
  <1> SUFFICES ASSUME IInvTiming, [NextTiming]_timingVars PROVE IInvTiming'
    OBVIOUS
  <1>1. TypeOKTiming'
    BY ClockTypes DEF IInvTiming
  <1>2. CASE NextTiming
    BY <1>1, <1>2, SleepsStep DEF IInvTiming
  <1>3. CASE UNCHANGED timingVars
    BY <1>1, <1>3 DEF IInvTiming, SleepsInTime, timingVars, vars, sessionVars
  <1> QED
    BY <1>2, <1>3

\* The invariant that says why.
THEOREM TimingInvariant == SpecTiming => []IInvTiming
  BY TimingInit, TimingKept, PTL DEF SpecTiming

\* However many sessions failed before, the bridge is connected again
\* BACKOFF_MAX after niri last gave it a reason not to be (run, next_backoff).
THEOREM Reconnects == SpecTiming => []ReconnectsInTime
  <1>1. IInvTiming => ReconnectsInTime
    <2> SUFFICES ASSUME IInvTiming, up, calm > BackoffMax
                 PROVE  task \in {"awaiting", "driving"}
      BY DEF ReconnectsInTime
    <2>1. calm \in Nat /\ timer \in Nat /\ BackoffMax \in Nat /\ TypeOK
      BY TimingTypes DEF IInvTiming
    <2>2. task # "sleeping" /\ task # "connecting"
      BY <2>1 DEF IInvTiming, SleepsInTime
    <2> QED
      BY <2>1, <2>2 DEF TypeOK
  <1> QED
    BY <1>1, TimingInvariant, PTL

=============================================================================
