---------------------------- MODULE MCBookRename ----------------------------
(* Instances of BookRename for TLC.                                        *)
EXTENDS BookRename

AllPaths == Kinds \X Names
AllDocs == {{"mine"}, {"theirs"}, {"mine", "theirs"}}
=============================================================================
