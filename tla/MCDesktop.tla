----------------------------- MODULE MCDesktop -----------------------------
(***************************************************************************)
(* An instance of Desktop: the application "files", a file of its name, a  *)
(* reverse-DNS file that is only fuzzily alike, and a file whose name is   *)
(* no valid id, in two directories.                                        *)
(***************************************************************************)
EXTENDS Desktop

MCNorm  == [i \in {"files", "org.x.Files", "my app", "other"} |->
              IF i = "org.x.Files" THEN "files" ELSE i]
MCFold  == [i \in {"files", "Files", "org.x.Files", "my app", "other"} |->
              IF i = "Files" THEN "files" ELSE i]
MCStems == {"files", "org.x.Files", "other", "my app"}
MCBase  == [x \in {"/bin/files", "other -w", "other -n", "run"} |->
              IF x = "/bin/files" THEN "files"
              ELSE IF x = "run" THEN "run" ELSE "other"]

File(class, name, exec, listed, groups) ==
    [shown |-> TRUE, class |-> class, name |-> name,
     exec |-> exec, listed |-> listed, groups |-> groups]

\* An entry of each tier, one of them with an Exec of field codes only; one
\* whose Actions= names a group that is missing; one of another program; a
\* hidden one.
ByClass  == File("Files", "other", "run", <<>>, <<>>)
ByProgram == File(None, None, "/bin/files", <<"gone", "new">>,
                  <<[id |-> "new", exec |-> "other -n"]>>)
ByName   == File(None, "files", "%U", <<>>, <<>>)
Foreign  == File("other", None, "other -w", <<>>,
                 <<[id |-> "new", exec |-> "run"]>>)
Hidden   == [ByClass EXCEPT !.shown = FALSE]
MCContents == {ByClass, ByProgram, ByName, Foreign, Hidden}
=============================================================================
