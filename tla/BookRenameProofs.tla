-------------------------- MODULE BookRenameProofs --------------------------
(***************************************************************************)
(* Proofs about the rename of a book.                                      *)
(*                                                                         *)
(*  - However many operations of the card fail and however often power is  *)
(*    lost, the book is at a name that leads to its bookmarks and          *)
(*    clippings, and the result tells which one that is: IInv.  Bookmarks  *)
(*    whose write ended short are excepted, as in MetadataFollowsBook.     *)
(*  - One failure, or one loss of power, is undone or got over: OneInv.    *)
(*  - Losses of power alone never cost the other book its bookmarks:       *)
(*    RestoreInv.                                                          *)
(***************************************************************************)
EXTENDS BookRename, TLAPS

USE DocAssumption, FaultAssumption, NameAssumption, PathAssumption
    DEF DocAssumption, FaultAssumption, NameAssumption, PathAssumption, history, Short

Ops == [step : Steps, from : Names, to : Names,
        active : SUBSET Migrations, parked : SUBSET Migrations,
        moved : SUBSET Moved, open : BOOLEAN, result : Results]

-----------------------------------------------------------------------------
(* The inductive invariant.                                                *)

\* The bookmarks and clippings are merged and copied.
ClipSteps == {"clips", "read clips", "settle clips", "clean clips", "park clips",
              "open clips", "write clips", "publish clips"}

\* The sources go.
Committing == {"commit marks", "tidy marks", "commit clips", "tidy clips"}

\* The book is at its new name.
Forth == {"move recent", "move open", "keep recent", "keep open"} \cup Committing

\* Both names have what is kept.
Prepared == {"move cache", "move book", "back open", "back recent", "again"} \cup Forth

\* The exception is MetadataFollowsBook's: bookmarks whose write ended short.
HasKept(kinds, name) ==
    \A kind \in kept \cap kinds :
        Readable(<<kind, name>>, "mine") \/ (kind = "marks" /\ Short(name))

Book(name) == Exists(<<"book", name>>)

BookInv ==
    /\ op.from # op.to
    /\ \E name \in Names : Book(name)
    /\ ~(Book(op.from) /\ Book(op.to))
    /\ op.step # "idle" => ("book" \in op.moved <=> Book(op.to))
    /\ op.step \in Forth => "book" \in op.moved
    /\ "book" \in op.moved => op.step \in Forth \cup {"recover"}

KeptInv ==
    /\ op.step = "idle" => \A name \in Names : Book(name) => HasKept(Migrations, name)
    /\ op.step \notin Committing \cup {"idle"} => HasKept(Migrations, op.from)
    /\ op.step \in Prepared \/ "book" \in op.moved => HasKept(Migrations, op.to)
    /\ op.step \in ClipSteps => HasKept({"marks"}, op.to)

\* What is merged and copied was looked at before.
CopyInv ==
    /\ op.step \in {"clean marks", "park marks", "open marks", "write marks"} =>
          files[From("marks")] \in Docs
    /\ op.step \in {"clean marks", "park marks"} => files[To("marks")] # Torn
    /\ op.step = "write marks" => files[To("marks")] = Torn
    /\ op.step \in {"open marks", "write marks"} /\ "marks" \in op.parked =>
          files[Parked("marks")] \in Docs
    /\ op.step \in {"marks", "read marks", "clean marks", "park marks"} => op.parked = {}
    /\ op.step \in {"settle clips", "clean clips", "park clips", "open clips", "write clips",
                    "publish clips"} => files[From("clips")] \in Docs
    /\ op.step = "publish clips" => files[To("clips.tmp")] = files[From("clips")]

ResultInv ==
    /\ op.step \in Committing => op.result \in {"Success", "KeepRenamed"}
    /\ op.step = "idle" =>
          /\ op.result \in {"Success", "KeepRenamed"} => Book(op.to)
          /\ op.result = "RolledBack" => Book(op.from)

IInv == TypeOK /\ BookInv /\ KeptInv /\ CopyInv /\ ResultInv

LEMMA Typed ==
    TypeOK <=>
        /\ files \in [Paths -> Contents] /\ faults \in Nat /\ op \in Ops
        /\ recent \in Names \cup {None}
        /\ openMem \in Names \cup {None} /\ openCard \in Names \cup {None}
        /\ kept \subseteq Migrations \cup {"theirs"} /\ cut \subseteq Names
  BY DEF TypeOK, CardType, Ops

LEMMA InitIInv == Init => IInv
<1> SUFFICES ASSUME Init PROVE IInv
  OBVIOUS
<1>1. PICK mine \in SUBSET {"cache", "marks", "clips"},
           theirs \in SUBSET {"cache", "marks", "clips", "clips.old"} :
          /\ files = [path \in Paths |->
                IF path \in ({"book"} \cup mine) \X {NameA} THEN {"mine"}
                ELSE IF path \in theirs \X {NameB} THEN {"theirs"} ELSE Absent]
          /\ kept = (mine \cap Migrations)
                    \cup (IF "marks" \in theirs THEN {"theirs"} ELSE {})
  BY DEF Init
<1>2. {"mine"} \in Docs /\ {"theirs"} \in Docs
  BY DocsAssumption DEF DocsAssumption
<1>3. /\ op.step = "idle" /\ op.from = NameA /\ op.to = NameB /\ op.moved = {}
      /\ op.result = "none" /\ op \in Ops
  BY DEF Init, Idle, Ops, Steps, Names, Migrations, Moved, Results
<1>4. files \in [Paths -> Contents]
  BY <1>1, <1>2 DEF Contents
<1>5. TypeOK
  BY <1>1, <1>3, <1>4, Typed DEF Init, Names, Migrations
<1>6. Book(NameA) /\ ~Book(NameB)
  BY <1>1, <1>2 DEF Book, Exists, Kinds, Names
<1>7. HasKept(Migrations, NameA)
  BY <1>1, <1>2 DEF HasKept, Readable, Kinds, Names, Migrations
<1>8. BookInv /\ KeptInv /\ CopyInv /\ ResultInv
  BY <1>3, <1>6, <1>7 DEF BookInv, KeptInv, CopyInv, ResultInv, Forth, Committing,
     Prepared, ClipSteps, Names
<1>9. QED
  BY <1>5, <1>8 DEF IInv

-----------------------------------------------------------------------------
(* What the steps of the card and of the rename change.                    *)

Touches(paths) ==
    CardType' /\ \A path \in Paths \ paths : files'[path] = files[path]

\* A step that does nothing, or fails, and one that removes, moves or writes a file.
LEMMA CardSteps ==
    ASSUME CardType
    PROVE  /\ Untouched => Touches({}) /\ files' = files
           /\ Fails => Touches({}) /\ files' = files
  BY DEF CardType, Untouched, Fails, Fault, Touches

LEMMA Removals ==
    ASSUME CardType, NEW path \in Paths
    PROVE  /\ Cleared(path) => Touches({path}) /\ files'[path] = Absent
           /\ ClearFails(path) => Touches({}) /\ files' = files
           /\ MayRemove(path) => Touches({path})
  BY DEF CardType, Contents, Cleared, ClearFails, MayRemove, Removed, Untouched, Unharmed,
     Fails, Fault, Exists, Touches

LEMMA Renames ==
    ASSUME CardType, NEW from \in Paths, NEW to \in Paths
    PROVE  /\ Renamed(from, to) =>
                 /\ Touches({from, to}) /\ Exists(from) /\ ~Exists(to)
                 /\ files'[from] = Absent /\ files'[to] = files[from]
           /\ RenameFails(from, to) => Touches({}) /\ files' = files
           /\ MayRename(from, to) => Touches({from, to})
<1>1. Renamed(from, to) =>
          /\ Touches({from, to}) /\ Exists(from) /\ ~Exists(to)
          /\ files'[from] = Absent /\ files'[to] = files[from]
  BY DEF CardType, Contents, Renamed, Movable, Unharmed, Exists, Touches
<1>2. RenameFails(from, to) => Touches({}) /\ files' = files
  BY DEF CardType, RenameFails, Untouched, Fails, Fault, Touches
<1>3. QED
  BY <1>1, <1>2 DEF MayRename, Touches

LEMMA Writes ==
    ASSUME CardType, NEW path \in Paths
    PROVE  /\ Opened(path) => Touches({path}) /\ files'[path] = Torn
           /\ \A doc \in Docs :
                 Written(path, doc) => Touches({path}) /\ files'[path] = doc
  BY DEF CardType, Contents, Opened, Written, Unharmed, Touches

\* The rename goes on with another step and nothing else changes about it.
On(step) ==
    /\ op' \in Ops /\ op'.step = step
    /\ op'.from = op.from /\ op'.to = op.to /\ op'.active = op.active
    /\ op'.parked = op.parked /\ op'.moved = op.moved
    /\ op'.open = op.open /\ op'.result = op.result

LEMMA Going ==
    ASSUME op \in Ops, NEW step \in Steps
    PROVE  op' = [op EXCEPT !.step = step] => On(step)
  BY DEF Ops, On

LEMMA Returning ==
    ASSUME op \in Ops, NEW result \in Results
    PROVE  Return(result) =>
               /\ op' \in Ops /\ op'.step = "idle" /\ op'.result = result
               /\ op'.from = op.from /\ op'.to = op.to /\ op'.moved = {}
<1> SUFFICES ASSUME Return(result) PROVE op' \in Ops
  BY DEF Return, Idle
<1>1. "idle" \in Steps /\ op.from \in Names /\ op.to \in Names
  BY DEF Ops, Steps
<1>2. QED
  BY <1>1 DEF Ops, Return, Idle

-----------------------------------------------------------------------------
(* Until the book moves, and when it is back: only what is at the other    *)
(* name changes.                                                           *)

MarkSteps == {"marks", "read marks", "clean marks", "park marks", "open marks", "write marks"}

Undoing == {"abandon marks", "return marks", "discard clips", "abandon clips", "return clips",
            "drop clips", "restore clips", "drop marks", "restore marks", "recover",
            "back cache"}

\* The files at the other name without the book, and the cache.
Aside == (Kinds \ {"book"}) \X {op.to} \cup {<<"cache", op.from>>}

RefsType ==
    /\ recent \in Names \cup {None}
    /\ openMem \in Names \cup {None} /\ openCard \in Names \cup {None}
    /\ cut \subseteq Names

\* The same rename goes on, with the book where it was.
Onward ==
    /\ op' \in Ops /\ op'.from = op.from /\ op'.to = op.to
    /\ op'.moved \cap {"book"} = op.moved \cap {"book"}
    /\ RefsType' /\ kept' = kept
    /\ op.from \in cut' <=> op.from \in cut

\* As long as the book has not moved, what is kept of it is at its name untouched; what
\* was copied to the other name must be known before the cache and the book move.
LEMMA Preparing ==
    ASSUME IInv, Onward, Touches(Aside),
           "book" \notin op.moved, op.step \notin Committing \cup {"idle"},
           op'.step \in MarkSteps \cup ClipSteps \cup Undoing \cup {"move cache", "move book"},
           op'.step \in ClipSteps => HasKept({"marks"}, op.to)',
           op'.step \in {"move cache", "move book"} => HasKept(Migrations, op.to)',
           CopyInv'
    PROVE  IInv'
<1>1. op \in Ops /\ {op.from, op.to} = Names /\ op.from # op.to
  BY Typed DEF IInv, BookInv, Ops, Names
<1>2. op'.step \in Undoing \cup MarkSteps \cup ClipSteps =>
          op'.step \notin Prepared \cup {"idle"}
  BY DEF Undoing, MarkSteps, ClipSteps, Prepared, Forth, Committing
<1>3. op'.step \notin Forth /\ op'.step \notin Committing \cup {"idle"}
      /\ "book" \notin op'.moved
  BY DEF Undoing, MarkSteps, ClipSteps, Forth, Committing, Onward
<1>4. \A kind \in Kinds \ {"cache"} :
          files'[<<kind, op.from>>] = files[<<kind, op.from>>]
  <2> SUFFICES ASSUME NEW kind \in Kinds \ {"cache"}
               PROVE  <<kind, op.from>> \in Paths \ Aside
    BY DEF Touches
  <2> QED
    BY <1>1 DEF Aside
<1>5. files'[<<"book", op.to>>] = files[<<"book", op.to>>]
  <2>1. <<"book", op.to>> \in Paths \ Aside
    BY <1>1 DEF Aside, Kinds
  <2> QED
    BY <2>1 DEF Touches
<1>6. TypeOK'
  BY DEF Onward, RefsType, Touches, TypeOK, Ops, IInv
<1>7. \A name \in Names : files'[<<"book", name>>] = files[<<"book", name>>]
  BY <1>1, <1>4, <1>5 DEF Kinds
<1>8. BookInv'
  <2>1. \A name \in Names : Book(name)' <=> Book(name)
    BY <1>7 DEF Book, Exists
  <2>2. ~Book(op.to)
    BY DEF IInv, BookInv
  <2> QED
    BY <1>1, <1>3, <2>1, <2>2 DEF Onward, IInv, BookInv
<1>9. HasKept(Migrations, op.from)'
  <2>1. HasKept(Migrations, op.from)
    BY DEF IInv, KeptInv
  <2> QED
    BY <1>4, <2>1 DEF HasKept, Readable, Onward, Kinds, Migrations
<1>10. KeptInv'
  BY <1>2, <1>3, <1>9 DEF KeptInv
<1>11. ResultInv'
  BY <1>3 DEF ResultInv
<1>12. QED
  BY <1>6, <1>8, <1>10, <1>11 DEF IInv

\* Nothing has to be at the other name when the rename is undone.
LEMMA GivingUp ==
    ASSUME IInv, Onward, Touches(Aside),
           "book" \notin op.moved, op.step \notin Committing \cup {"idle"},
           op'.step \in Undoing
    PROVE  IInv'
<1>1. op'.step \notin MarkSteps \cup ClipSteps \cup {"move cache", "move book"}
  BY DEF Undoing, MarkSteps, ClipSteps
<1>2. CopyInv'
  BY <1>1 DEF CopyInv, MarkSteps, ClipSteps
<1>3. QED
  BY <1>1, <1>2, Preparing

\* What every step of the preparation can rely on.
LEMMA Ready ==
    ASSUME IInv, op.step \in MarkSteps \cup ClipSteps \cup Undoing, op.step # "recover"
    PROVE  /\ op \in Ops /\ CardType /\ RefsType
           /\ "book" \notin op.moved /\ op.step \notin Committing \cup {"idle"}
           /\ HasKept(Migrations, op.from)
           /\ \A kind \in Kinds : <<kind, op.from>> \in Paths /\ <<kind, op.to>> \in Paths
           /\ {op.from, op.to} = Names /\ op.from # op.to
<1>1. op.step \notin Forth \cup {"recover", "idle"}
  BY DEF MarkSteps, ClipSteps, Undoing, Forth, Committing
<1>2. op.step \notin Committing
  BY <1>1 DEF Forth
<1>3. op \in Ops /\ CardType /\ RefsType
  BY DEF IInv, TypeOK, Ops, RefsType
<1>4. {op.from, op.to} = Names /\ op.from # op.to
  BY <1>3 DEF IInv, BookInv, Ops, Names
<1>5. "book" \notin op.moved /\ HasKept(Migrations, op.from)
  BY <1>1, <1>2 DEF IInv, BookInv, KeptInv
<1>6. QED
  BY <1>1, <1>2, <1>3, <1>4, <1>5

\* A step that only goes on, or only fails.
LEMMA GoingOn ==
    ASSUME IInv, NEW step \in Steps, op.step \in MarkSteps \cup ClipSteps \cup Undoing,
           op.step # "recover", op' = [op EXCEPT !.step = step], CardOnly
    PROVE  Onward /\ On(step)
<1>1. op \in Ops /\ RefsType
  BY Ready
<1>2. On(step)
  BY <1>1, Going
<1>3. QED
  BY <1>1, <1>2 DEF On, Onward, CardOnly, refs, RefsType

LEMMA AsideSteps ==
    ASSUME CardType, NEW path \in Aside \cap Paths, NEW from \in Aside \cap Paths
    PROVE  /\ Untouched \/ Fails => Touches(Aside)
           /\ Cleared(path) \/ ClearFails(path) \/ MayRemove(path) => Touches(Aside)
           /\ Renamed(from, path) \/ RenameFails(from, path) => Touches(Aside)
           /\ Opened(path) => Touches(Aside)
           /\ \A doc \in Docs : Written(path, doc) => Touches(Aside)
<1>1. \A paths \in {{}, {path}, {from, path}} : Touches(paths) => Touches(Aside)
  BY DEF Touches
<1>2. Untouched \/ Fails => Touches(Aside)
  BY <1>1, CardSteps
<1>3. Cleared(path) \/ ClearFails(path) \/ MayRemove(path) => Touches(Aside)
  BY <1>1, Removals
<1>4. Renamed(from, path) \/ RenameFails(from, path) => Touches(Aside)
  BY <1>1, Renames
<1>5. Opened(path) => Touches(Aside)
  BY <1>1, Writes
<1>6. \A doc \in Docs : Written(path, doc) => Touches(Aside)
  BY <1>1, Writes
<1>7. QED
  BY <1>2, <1>3, <1>4, <1>5, <1>6

\* A step that fails before anything was moved.
LEMMA Retreats ==
    ASSUME IInv, NEW step \in Undoing, op.step \in MarkSteps \cup ClipSteps \cup Undoing,
           op.step # "recover", op' = [op EXCEPT !.step = step], CardOnly, Touches(Aside)
    PROVE  IInv'
<1>1. step \in Steps
  BY DEF Undoing, Steps
<1>2. Onward /\ op'.step = step
  BY <1>1, GoingOn DEF On
<1>3. "book" \notin op.moved /\ op.step \notin Committing \cup {"idle"}
  BY Ready
<1>4. QED
  BY <1>2, <1>3, GivingUp

\* The paths of the other name that the steps use.
LEMMA AsidePaths ==
    ASSUME op \in Ops
    PROVE  /\ \A kind \in {"marks", "clips", "clips.tmp", "clips.old", "cache"} :
                 To(kind) \in Aside /\ To(kind) \in Paths
           /\ \A kind \in Migrations : Parked(kind) \in Aside /\ Parked(kind) \in Paths
<1>1. op.to \in Names
  BY DEF Ops
<1>2. \A kind \in Kinds \ {"book"} : <<kind, op.to>> \in Aside /\ <<kind, op.to>> \in Paths
  BY <1>1 DEF Aside
<1>3. QED
  BY <1>2 DEF To, Parked, Kinds, Migrations

\* A step of the bookmarks that succeeds.
LEMMA PreparingMarks ==
    ASSUME IInv, NEW step \in MarkSteps \cup {"clips"},
           op.step \in MarkSteps, On(step), CardOnly, Touches(Aside), CopyInv',
           step = "clips" => HasKept({"marks"}, op.to)'
    PROVE  IInv'
<1>1. Onward
  BY Ready DEF On, Onward, CardOnly, refs, RefsType, MarkSteps
<1>2. "book" \notin op.moved /\ op.step \notin Committing \cup {"idle"}
  BY Ready DEF MarkSteps
<1>3. QED
  BY <1>1, <1>2, Preparing DEF On, MarkSteps, ClipSteps

LEMMA RecoverMarksStep == IInv /\ RecoverParked("marks", "read marks") => IInv'
<1> SUFFICES ASSUME IInv, RecoverParked("marks", "read marks") PROVE IInv'
  OBVIOUS
<1>1. op \in Ops /\ CardType /\ op.step = "marks" /\ op.step \in MarkSteps /\ CardOnly
  BY Ready DEF RecoverParked, MarkSteps
<1>2. Touches(Aside) /\ (Goto("read marks") \/ Goto("recover"))
  <2>1. To("marks") \in Aside /\ To("marks") \in Paths
        /\ Parked("marks") \in Aside /\ Parked("marks") \in Paths
    BY <1>1, AsidePaths DEF Migrations
  <2>2. QED
    BY <1>1, <2>1, AsideSteps DEF RecoverParked, Move
<1>3. CASE Goto("recover")
  BY <1>1, <1>2, <1>3, Retreats DEF Undoing, Goto
<1>4. CASE Goto("read marks")
  <2>1. On("read marks")
    BY <1>1, <1>4, Going DEF Steps, Goto
  <2>2. op.parked = {}
    BY <1>1 DEF IInv, CopyInv
  <2>3. CopyInv'
    BY <2>1, <2>2 DEF On, CopyInv
  <2>4. QED
    BY <1>1, <1>2, <2>1, <2>3, PreparingMarks DEF MarkSteps
<1>5. QED
  BY <1>2, <1>3, <1>4

LEMMA ReadMarksStep == IInv /\ ReadMarks => IInv'
<1> SUFFICES ASSUME IInv, ReadMarks PROVE IInv'
  OBVIOUS
<1>1. op \in Ops /\ CardType /\ RefsType /\ op.step = "read marks" /\ op.step \in MarkSteps
      /\ CardOnly /\ Untouched /\ "book" \notin op.moved
      /\ op.step \notin Committing \cup {"idle"} /\ HasKept(Migrations, op.from)
      /\ From("marks") \in Paths /\ op.parked = {}
  BY Ready DEF ReadMarks, MarkSteps, IInv, CopyInv, From, Kinds
<1>2. Touches(Aside) /\ files' = files
  BY <1>1, CardSteps DEF Touches
<1>3. CASE ~Exists(From("marks"))
  <2>1. Goto("clips")
    BY <1>3 DEF ReadMarks, Goto
  <2>2. On("clips")
    BY <1>1, <2>1, Going DEF Goto, Steps
  <2>3. kept \cap {"marks"} = {}
    <3>1. files[<<"marks", op.from>>] \notin Docs \cup {Torn}
      BY <1>3 DEF Exists, From
    <3>2. QED
      BY <1>1, <3>1 DEF HasKept, Readable, Migrations, From, CardType, Contents
  <2>4. HasKept({"marks"}, op.to)'
    BY <1>1, <2>3 DEF HasKept, CardOnly
  <2>5. CopyInv'
    BY <2>2 DEF On, CopyInv
  <2>6. QED
    BY <1>1, <1>2, <2>2, <2>4, <2>5, PreparingMarks
<1>4. CASE Exists(From("marks")) /\ Torn \in {files[From("marks")], files[To("marks")]}
  BY <1>1, <1>2, <1>4, Retreats DEF Undoing, ReadMarks
<1>5. CASE Exists(From("marks")) /\ Torn \notin {files[From("marks")], files[To("marks")]}
  <2>1. op' = [op EXCEPT !.step = "clean marks", !.active = {"marks"}]
    BY <1>5 DEF ReadMarks
  <2>2. /\ op' \in Ops /\ op'.step = "clean marks" /\ op'.from = op.from /\ op'.to = op.to
        /\ op'.moved = op.moved /\ op'.parked = {} /\ op'.result = op.result
    <3>1. "clean marks" \in Steps /\ {"marks"} \subseteq Migrations
      BY DEF Steps, Migrations
    <3>2. QED
      BY <1>1, <2>1, <3>1 DEF Ops
  <2>3. files[From("marks")] \in Docs
    BY <1>1, <1>5 DEF Exists, CardType, Contents
  <2>4. CopyInv'
    BY <1>2, <1>5, <2>2, <2>3 DEF CopyInv, From, To
  <2>5. Onward
    BY <1>1, <2>2 DEF Onward, CardOnly, refs, RefsType
  <2>6. QED
    BY <1>1, <1>2, <2>2, <2>4, <2>5, Preparing DEF MarkSteps, ClipSteps
<1>6. QED
  BY <1>3, <1>4, <1>5

LEMMA CleanMarksStep == IInv /\ CleanMarks => IInv'
<1> SUFFICES ASSUME IInv, CleanMarks PROVE IInv'
  OBVIOUS
<1>1. op \in Ops /\ CardType /\ op.step = "clean marks" /\ op.step \in MarkSteps /\ CardOnly
      /\ op.parked = {} /\ files[From("marks")] \in Docs /\ files[To("marks")] # Torn
  BY Ready DEF CleanMarks, MarkSteps, IInv, CopyInv
<1>2. Parked("marks") \in Aside /\ Parked("marks") \in Paths
  BY <1>1, AsidePaths DEF Migrations
<1>3. Touches(Aside) /\ \A path \in Paths \ {Parked("marks")} : files'[path] = files[path]
  BY <1>1, <1>2, AsideSteps, CardSteps, Removals DEF CleanMarks, Clear, Touches
<1>4. files'[From("marks")] = files[From("marks")] /\ files'[To("marks")] = files[To("marks")]
  BY <1>1, <1>3 DEF Ops, From, To, Parked, Kinds
<1>5. Goto("park marks") \/ Goto("open marks") \/ Goto("abandon marks")
  BY DEF CleanMarks, Clear
<1>6. CASE Goto("abandon marks")
  BY <1>1, <1>3, <1>6, Retreats DEF Undoing, Goto
<1>7. ASSUME NEW step \in {"park marks", "open marks"}, Goto(step) PROVE IInv'
  <2>1. On(step)
    BY <1>1, <1>7, Going DEF Goto, Steps
  <2>2. CopyInv'
    BY <1>1, <1>4, <2>1 DEF On, CopyInv, From, To
  <2>3. QED
    BY <1>1, <1>3, <2>1, <2>2, PreparingMarks DEF MarkSteps
<1>8. QED
  BY <1>5, <1>6, <1>7

LEMMA ParkMarksStep == IInv /\ ParkMarks => IInv'
<1> SUFFICES ASSUME IInv, ParkMarks PROVE IInv'
  OBVIOUS
<1>1. op \in Ops /\ CardType /\ RefsType /\ op.step = "park marks" /\ op.step \in MarkSteps
      /\ CardOnly /\ "book" \notin op.moved /\ op.step \notin Committing \cup {"idle"}
      /\ files[From("marks")] \in Docs /\ files[To("marks")] # Torn
      /\ From("marks") \in Paths /\ op.from # op.to
  BY Ready DEF ParkMarks, MarkSteps, IInv, CopyInv, From, Kinds
<1>2. To("marks") \in Aside /\ To("marks") \in Paths
      /\ Parked("marks") \in Aside /\ Parked("marks") \in Paths
  BY <1>1, AsidePaths DEF Migrations
<1>3. CASE RenameFails(To("marks"), Parked("marks")) /\ Goto("abandon marks")
  BY <1>1, <1>2, <1>3, AsideSteps, Retreats DEF Undoing, Goto
<1>4. CASE /\ Renamed(To("marks"), Parked("marks"))
           /\ op' = [op EXCEPT !.step = "open marks", !.parked = {"marks"}]
  <2>1. /\ op' \in Ops /\ op'.step = "open marks" /\ op'.from = op.from /\ op'.to = op.to
        /\ op'.moved = op.moved
    <3>1. "open marks" \in Steps /\ {"marks"} \subseteq Migrations
      BY DEF Steps, Migrations
    <3>2. QED
      BY <1>1, <1>4, <3>1 DEF Ops
  <2>2. Touches(Aside) /\ files'[Parked("marks")] = files[To("marks")] /\ Exists(To("marks"))
        /\ Touches({To("marks"), Parked("marks")})
    BY <1>1, <1>2, <1>4, AsideSteps, Renames
  <2>3. files[To("marks")] \in Docs
    BY <1>1, <1>2, <2>2 DEF Exists, CardType, Contents
  <2>4. files'[From("marks")] = files[From("marks")]
    <3>1. From("marks") \notin {To("marks"), Parked("marks")}
      BY <1>1 DEF From, To, Parked
    <3>2. QED
      BY <1>1, <2>2, <3>1 DEF Touches
  <2>5. CopyInv'
    BY <1>1, <2>1, <2>2, <2>3, <2>4 DEF CopyInv, From, Parked
  <2>6. Onward
    BY <1>1, <2>1 DEF Onward, CardOnly, refs, RefsType
  <2>7. QED
    BY <1>1, <2>1, <2>2, <2>5, <2>6, Preparing DEF MarkSteps, ClipSteps
<1>5. QED
  BY <1>3, <1>4 DEF ParkMarks, Move

LEMMA OpenMarksStep == IInv /\ OpenMarks => IInv'
<1> SUFFICES ASSUME IInv, OpenMarks PROVE IInv'
  OBVIOUS
<1>1. op \in Ops /\ CardType /\ op.step = "open marks" /\ op.step \in MarkSteps /\ CardOnly
      /\ From("marks") \in Paths /\ op.from # op.to
  BY Ready DEF OpenMarks, MarkSteps, From, Kinds
<1>2. To("marks") \in Aside /\ To("marks") \in Paths /\ Parked("marks") \in Paths
  BY <1>1, AsidePaths DEF Migrations
<1>3. CASE Fails /\ Goto("abandon marks")
  BY <1>1, <1>2, <1>3, AsideSteps, Retreats DEF Undoing, Goto
<1>4. CASE Opened(To("marks")) /\ Goto("write marks")
  <2>1. On("write marks")
    BY <1>1, <1>4, Going DEF Steps, Goto
  <2>2. Touches(Aside) /\ Touches({To("marks")})
    BY <1>1, <1>2, <1>4, AsideSteps, Writes
  <2>3. files'[From("marks")] = files[From("marks")]
        /\ files'[Parked("marks")] = files[Parked("marks")]
    <3>1. From("marks") # To("marks") /\ Parked("marks") # To("marks")
      BY <1>1 DEF From, To, Parked
    <3>2. QED
      BY <1>1, <1>2, <2>2, <3>1 DEF Touches
  <2>4. /\ files[From("marks")] \in Docs
        /\ "marks" \in op.parked => files[Parked("marks")] \in Docs
    BY <1>1 DEF IInv, CopyInv
  <2>5. files'[To("marks")] = Torn
    BY <1>1, <1>2, <1>4, Writes
  <2>6. CopyInv'
    BY <2>1, <2>3, <2>4, <2>5 DEF On, CopyInv, From, To, Parked
  <2>7. QED
    BY <1>1, <2>1, <2>2, <2>6, PreparingMarks DEF MarkSteps
<1>5. QED
  BY <1>3, <1>4 DEF OpenMarks

LEMMA WriteMarksStep == IInv /\ WriteMarks => IInv'
<1> SUFFICES ASSUME IInv, WriteMarks PROVE IInv'
  OBVIOUS
<1> DEFINE both == files[From("marks")] \cup
                   IF "marks" \in op.parked THEN files[Parked("marks")] ELSE {}
<1>1. op \in Ops /\ CardType /\ RefsType /\ op.step = "write marks" /\ op.step \in MarkSteps
      /\ "book" \notin op.moved /\ op.step \notin Committing \cup {"idle"}
      /\ HasKept(Migrations, op.from) /\ UNCHANGED <<refs, kept>>
      /\ cut \subseteq Names /\ op.to \in Names /\ op.from # op.to
      /\ files[To("marks")] = Torn
  BY Ready DEF WriteMarks, MarkSteps, RefsType, IInv, CopyInv, Ops
<1>2. To("marks") \in Aside /\ To("marks") \in Paths
  BY <1>1, AsidePaths DEF Migrations
<1>3. files[From("marks")] \in Docs /\ both \in Docs
  <2>1. files[From("marks")] \in Docs
        /\ ("marks" \in op.parked => files[Parked("marks")] \in Docs)
    BY <1>1 DEF IInv, CopyInv
  <2>2. QED
    BY <2>1, DocsAssumption DEF DocsAssumption
<1>4. On("clips")
  BY <1>1, Going DEF WriteMarks, Goto, Steps
<1>5. Touches(Aside) /\ cut' \subseteq Names /\ HasKept({"marks"}, op.to)'
      /\ (op.from \in cut' <=> op.from \in cut)
  <2>1. CASE Written(To("marks"), both) /\ cut' = cut \ {op.to}
    <3>1. Touches(Aside) /\ files'[To("marks")] = both
      BY <1>1, <1>2, <1>3, <2>1, AsideSteps, Writes
    <3>2. "marks" \in kept => "mine" \in both
      BY <1>1, <1>3 DEF HasKept, Readable, From, Migrations
    <3>3. "marks" \in kept' => Readable(<<"marks", op.to>>, "mine")'
      <4>1. files'[<<"marks", op.to>>] = both /\ both \notin {Absent, Torn}
        BY <1>3, <3>1 DEF To
      <4>2. op'.to = op.to /\ kept' = kept
        BY <1>1, <1>4 DEF On
      <4>3. QED
        BY <3>2, <4>1, <4>2 DEF Readable
    <3>4. HasKept({"marks"}, op.to)'
      BY <3>3 DEF HasKept
    <3>5. QED
      BY <1>1, <2>1, <3>1, <3>4
  <2>2. CASE Fails /\ cut' = cut \cup {op.to}
    <3>1. Touches(Aside) /\ files' = files
      BY <1>1, <1>2, <2>2, AsideSteps, CardSteps
    <3>2. Short(op.to)'
      BY <1>1, <1>4, <2>2, <3>1 DEF On, To
    <3>3. HasKept({"marks"}, op.to)'
      BY <3>2 DEF HasKept
    <3>4. QED
      BY <1>1, <2>2, <3>1, <3>3
  <2>3. QED
    BY <2>1, <2>2 DEF WriteMarks
<1>6. Onward
  BY <1>1, <1>4, <1>5 DEF On, Onward, refs, RefsType
<1>7. CopyInv'
  BY <1>4 DEF On, CopyInv
<1>8. QED
  BY <1>1, <1>4, <1>5, <1>6, <1>7, Preparing DEF On, ClipSteps

-----------------------------------------------------------------------------
(* The clippings.                                                          *)

ClipFiles == {"clips", "clips.bak", "clips.tmp", "clips.old"} \X {op.to}

LEMMA ClipFileSteps ==
    ASSUME CardType, NEW path \in ClipFiles \cap Paths, NEW from \in ClipFiles \cap Paths
    PROVE  /\ Untouched \/ Fails => Touches(ClipFiles)
           /\ Cleared(path) \/ ClearFails(path) \/ MayRemove(path) => Touches(ClipFiles)
           /\ Renamed(from, path) \/ RenameFails(from, path) => Touches(ClipFiles)
           /\ Opened(path) => Touches(ClipFiles)
           /\ \A doc \in Docs : Written(path, doc) => Touches(ClipFiles)
<1>1. \A paths \in {{}, {path}, {from, path}} : Touches(paths) => Touches(ClipFiles)
  BY DEF Touches
<1>2. Untouched \/ Fails => Touches(ClipFiles)
  BY <1>1, CardSteps
<1>3. Cleared(path) \/ ClearFails(path) \/ MayRemove(path) => Touches(ClipFiles)
  BY <1>1, Removals
<1>4. Renamed(from, path) \/ RenameFails(from, path) => Touches(ClipFiles)
  BY <1>1, Renames
<1>5. Opened(path) => Touches(ClipFiles)
  BY <1>1, Writes
<1>6. \A doc \in Docs : Written(path, doc) => Touches(ClipFiles)
  BY <1>1, Writes
<1>7. QED
  BY <1>2, <1>3, <1>4, <1>5, <1>6

LEMMA ClipPaths ==
    ASSUME op \in Ops
    PROVE  /\ \A kind \in {"clips", "clips.tmp", "clips.old"} :
                 To(kind) \in ClipFiles \cap Paths
           /\ Parked("clips") \in ClipFiles \cap Paths
  BY DEF Ops, To, Parked, ClipFiles, Kinds

LEMMA ClipsAreAside ==
    ASSUME op \in Ops, op.from # op.to, Touches(ClipFiles)
    PROVE  /\ Touches(Aside)
           /\ files'[To("marks")] = files[To("marks")]
           /\ files'[From("clips")] = files[From("clips")]
<1>1. ClipFiles \subseteq Aside
  BY DEF ClipFiles, Aside, Kinds
<1>2. To("marks") \in Paths \ ClipFiles /\ From("clips") \in Paths \ ClipFiles
  BY DEF Ops, To, From, ClipFiles, Kinds
<1>3. QED
  BY <1>1, <1>2 DEF Touches

\* A step of the clippings that succeeds leaves the bookmarks alone.
LEMMA PreparingClips ==
    ASSUME IInv, NEW step \in ClipSteps \cup {"move cache"}, op.step \in ClipSteps,
           Onward, op'.step = step, CardOnly, Touches(ClipFiles),
           step \notin {"clips", "read clips", "move cache"} => files[From("clips")] \in Docs,
           step = "publish clips" => files'[To("clips.tmp")] = files[From("clips")],
           step = "move cache" => HasKept({"clips"}, op.to)'
    PROVE  IInv'
<1>1. op \in Ops /\ op.from # op.to /\ op.from \in Names /\ op.to \in Names
      /\ "book" \notin op.moved /\ op.step \notin Committing \cup {"idle"}
  BY Ready DEF ClipSteps, Ops
<1>2. Touches(Aside) /\ files'[To("marks")] = files[To("marks")]
      /\ files'[From("clips")] = files[From("clips")]
  BY <1>1, ClipsAreAside
<1>3. HasKept({"marks"}, op.to)
  BY DEF IInv, KeptInv
<1>4. HasKept({"marks"}, op.to)'
  BY <1>2, <1>3 DEF HasKept, Readable, To, Onward, CardOnly
<1>5. step = "move cache" => HasKept(Migrations, op.to)'
  BY <1>4 DEF HasKept, Migrations
<1>6. CopyInv'
  BY <1>2 DEF CopyInv, From, To, Onward, ClipSteps
<1>7. QED
  BY <1>1, <1>2, <1>4, <1>5, <1>6, Preparing DEF ClipSteps

LEMMA ReadyForClips ==
    ASSUME IInv, op.step \in ClipSteps
    PROVE  /\ op \in Ops /\ CardType /\ RefsType /\ op.step # "recover"
           /\ From("clips") \in Paths /\ op.from # op.to
           /\ HasKept({"clips"}, op.from)
           /\ \A kind \in {"clips", "clips.tmp", "clips.old"} :
                 To(kind) \in ClipFiles \cap Paths
           /\ Parked("clips") \in ClipFiles \cap Paths
           /\ op.step \notin {"clips", "read clips"} => files[From("clips")] \in Docs
<1>1. op \in Ops /\ CardType /\ RefsType /\ op.from # op.to /\ HasKept(Migrations, op.from)
      /\ From("clips") \in Paths /\ op.step # "recover"
  BY Ready DEF ClipSteps, From, Kinds
<1>2. HasKept({"clips"}, op.from)
  BY <1>1 DEF HasKept, Migrations
<1>3. op.step \notin {"clips", "read clips"} => files[From("clips")] \in Docs
  BY DEF ClipSteps, IInv, CopyInv
<1>4. QED
  BY <1>1, <1>2, <1>3, ClipPaths

LEMMA ClipsGoOn ==
    ASSUME IInv, NEW step \in ClipSteps \cup {"move cache"}, op.step \in ClipSteps, Goto(step),
           CardOnly, Touches(ClipFiles),
           step \notin {"clips", "read clips", "move cache"} => files[From("clips")] \in Docs,
           step = "publish clips" => files'[To("clips.tmp")] = files[From("clips")],
           step = "move cache" => HasKept({"clips"}, op.to)'
    PROVE  IInv'
<1>1. op.step # "recover"
  BY DEF ClipSteps
<1>2. step \in Steps
  BY DEF ClipSteps, Steps
<1>3. op' = [op EXCEPT !.step = step]
  BY DEF Goto
<1>4. Onward /\ On(step)
  BY <1>1, <1>2, <1>3, GoingOn
<1>5. Onward /\ op'.step = step
  BY <1>4 DEF On
<1>6. QED
  BY <1>5, PreparingClips

LEMMA ClipsRetreat ==
    ASSUME IInv, NEW step \in Undoing, op.step \in ClipSteps, Goto(step), CardOnly,
           Touches(ClipFiles)
    PROVE  IInv'
<1>1. Touches(Aside) /\ op.step # "recover"
  BY ReadyForClips, ClipsAreAside
<1>2. QED
  BY <1>1, Retreats DEF Goto

LEMMA RecoverClipsStep == IInv /\ RecoverParked("clips", "read clips") => IInv'
<1> SUFFICES ASSUME IInv, RecoverParked("clips", "read clips") PROVE IInv'
  OBVIOUS
<1>1. op.step \in ClipSteps /\ CardOnly
  BY DEF RecoverParked, ClipSteps
<1>2. Touches(ClipFiles) /\ (Goto("read clips") \/ Goto("recover"))
  BY <1>1, ReadyForClips, ClipFileSteps DEF RecoverParked, Move
<1>3. QED
  BY <1>1, <1>2, ClipsGoOn, ClipsRetreat DEF ClipSteps, Undoing

LEMMA ReadClipsStep == IInv /\ ReadClips => IInv'
<1> SUFFICES ASSUME IInv, ReadClips PROVE IInv'
  OBVIOUS
<1>1. op.step \in ClipSteps /\ CardOnly /\ Touches(ClipFiles) /\ CardType
      /\ HasKept({"clips"}, op.from) /\ From("clips") \in Paths
  BY ReadyForClips, ClipFileSteps DEF ReadClips, ClipSteps
<1>2. CASE ~Exists(From("clips"))
  <2>1. kept \cap {"clips"} = {}
    BY <1>1, <1>2 DEF HasKept, Readable, Exists, From
  <2>2. HasKept({"clips"}, op.to)'
    BY <1>1, <2>1 DEF HasKept, CardOnly
  <2>3. QED
    BY <1>1, <1>2, <2>2, ClipsGoOn DEF ReadClips
<1>3. CASE Exists(From("clips")) /\ files[From("clips")] = Torn
  BY <1>1, <1>3, ClipsRetreat DEF ReadClips, Undoing
<1>4. CASE Exists(From("clips")) /\ files[From("clips")] # Torn
  <2>1. files[From("clips")] \in Docs
    BY <1>1, <1>4 DEF Exists, CardType, Contents
  <2>2. QED
    BY <1>1, <1>4, <2>1, ClipsGoOn DEF ReadClips, ClipSteps
<1>5. QED
  BY <1>2, <1>3, <1>4

LEMMA SettleClipsStep == IInv /\ SettleClips => IInv'
<1> SUFFICES ASSUME IInv, SettleClips PROVE IInv'
  OBVIOUS
<1>1. op.step \in ClipSteps /\ CardOnly /\ files[From("clips")] \in Docs
  BY ReadyForClips DEF SettleClips, ClipSteps
<1>2. Touches(ClipFiles) /\ (Goto("clean clips") \/ Goto("recover"))
  BY <1>1, ReadyForClips, ClipFileSteps DEF SettleClips, Clear, Move
<1>3. QED
  BY <1>1, <1>2, ClipsGoOn, ClipsRetreat DEF ClipSteps, Undoing

LEMMA CleanClipsStep == IInv /\ CleanClips => IInv'
<1> SUFFICES ASSUME IInv, CleanClips PROVE IInv'
  OBVIOUS
<1>1. op.step \in ClipSteps /\ CardOnly /\ files[From("clips")] \in Docs
  BY ReadyForClips DEF CleanClips, ClipSteps
<1>2. Touches(ClipFiles) /\ (Goto("park clips") \/ Goto("recover"))
  BY <1>1, ReadyForClips, ClipFileSteps DEF CleanClips, Clear
<1>3. QED
  BY <1>1, <1>2, ClipsGoOn, ClipsRetreat DEF ClipSteps, Undoing

LEMMA ParkClipsStep == IInv /\ ParkClips => IInv'
<1> SUFFICES ASSUME IInv, ParkClips PROVE IInv'
  OBVIOUS
<1>1. op.step \in ClipSteps /\ CardOnly /\ files[From("clips")] \in Docs
      /\ op \in Ops /\ RefsType
  BY ReadyForClips DEF ParkClips, ClipSteps
<1>2. Touches(ClipFiles)
  BY <1>1, ReadyForClips, ClipFileSteps DEF ParkClips, Move
<1>3. CASE Goto("recover")
  BY <1>1, <1>2, <1>3, ClipsRetreat DEF Undoing
<1>4. ASSUME NEW parked \in SUBSET Migrations,
             op' = [op EXCEPT !.step = "open clips", !.active = @ \cup {"clips"},
                              !.parked = parked]
      PROVE  IInv'
  <2>1. "open clips" \in Steps /\ op.active \cup {"clips"} \in SUBSET Migrations
    BY <1>1 DEF Steps, Migrations, Ops
  <2>2. /\ op' \in Ops /\ op'.step = "open clips" /\ op'.from = op.from /\ op'.to = op.to
        /\ op'.moved = op.moved
    BY <1>1, <1>4, <2>1 DEF Ops
  <2>3. Onward
    BY <1>1, <2>2 DEF Onward, CardOnly, refs, RefsType
  <2>4. QED
    BY <1>1, <1>2, <2>2, <2>3, PreparingClips DEF ClipSteps
<1>5. op.parked \cup {"clips"} \in SUBSET Migrations /\ op.parked \in SUBSET Migrations
  BY <1>1 DEF Ops, Migrations
<1>6. \/ Goto("recover")
      \/ \E parked \in SUBSET Migrations :
            op' = [op EXCEPT !.step = "open clips", !.active = @ \cup {"clips"},
                             !.parked = parked]
  <2> DEFINE active == [op EXCEPT !.step = "open clips", !.active = @ \cup {"clips"}]
  <2>1. \/ op' = [active EXCEPT !.parked = @ \cup {"clips"}]
        \/ op' = active
        \/ Goto("recover")
    BY DEF ParkClips, Move
  <2>2. active = [op EXCEPT !.step = "open clips", !.active = @ \cup {"clips"},
                            !.parked = op.parked]
        /\ [active EXCEPT !.parked = @ \cup {"clips"}] =
                 [op EXCEPT !.step = "open clips", !.active = @ \cup {"clips"},
                            !.parked = op.parked \cup {"clips"}]
    BY <1>1 DEF Ops
  <2>3. QED
    BY <1>5, <2>1, <2>2
<1>7. QED
  BY <1>3, <1>4, <1>6

LEMMA OpenClipsStep == IInv /\ OpenClips => IInv'
<1> SUFFICES ASSUME IInv, OpenClips PROVE IInv'
  OBVIOUS
<1>1. op.step \in ClipSteps /\ CardOnly /\ files[From("clips")] \in Docs
  BY ReadyForClips DEF OpenClips, ClipSteps
<1>2. Touches(ClipFiles) /\ (Goto("write clips") \/ Goto("abandon clips"))
  BY <1>1, ReadyForClips, ClipFileSteps DEF OpenClips
<1>3. QED
  BY <1>1, <1>2, ClipsGoOn, ClipsRetreat DEF ClipSteps, Undoing

LEMMA WriteClipsStep == IInv /\ WriteClips => IInv'
<1> SUFFICES ASSUME IInv, WriteClips PROVE IInv'
  OBVIOUS
<1>1. op.step \in ClipSteps /\ CardOnly /\ files[From("clips")] \in Docs /\ CardType
      /\ To("clips.tmp") \in ClipFiles \cap Paths
  BY ReadyForClips DEF WriteClips, ClipSteps
<1>2. CASE Fails /\ Goto("discard clips")
  BY <1>1, <1>2, ClipFileSteps, ClipsRetreat DEF Undoing
<1>3. CASE Written(To("clips.tmp"), files[From("clips")]) /\ Goto("publish clips")
  <2>1. Touches(ClipFiles) /\ files'[To("clips.tmp")] = files[From("clips")]
    BY <1>1, <1>3, ClipFileSteps, Writes
  <2>2. QED
    BY <1>1, <1>3, <2>1, ClipsGoOn DEF ClipSteps
<1>4. QED
  BY <1>2, <1>3 DEF WriteClips

LEMMA PublishClipsStep == IInv /\ PublishClips => IInv'
<1> SUFFICES ASSUME IInv, PublishClips PROVE IInv'
  OBVIOUS
<1>1. op.step \in ClipSteps /\ CardOnly /\ files[From("clips")] \in Docs /\ CardType
      /\ op \in Ops /\ HasKept({"clips"}, op.from)
      /\ To("clips.tmp") \in ClipFiles \cap Paths /\ To("clips") \in ClipFiles \cap Paths
      /\ files[To("clips.tmp")] = files[From("clips")]
  BY ReadyForClips DEF PublishClips, ClipSteps, IInv, CopyInv
<1>2. CASE RenameFails(To("clips.tmp"), To("clips")) /\ Goto("discard clips")
  BY <1>1, <1>2, ClipFileSteps, ClipsRetreat DEF Undoing
<1>3. CASE Renamed(To("clips.tmp"), To("clips")) /\ Goto("move cache")
  <2>1. Touches(ClipFiles) /\ files'[To("clips")] = files[From("clips")]
    BY <1>1, <1>3, ClipFileSteps, Renames
  <2>2. "clips" \in kept => "mine" \in files[From("clips")]
    BY <1>1 DEF HasKept, Readable, From
  <2>3. HasKept({"clips"}, op.to)'
    <3>1. op'.to = op.to
      BY <1>1, <1>3 DEF Goto, Ops
    <3>2. QED
      BY <1>1, <2>1, <2>2, <3>1 DEF HasKept, Readable, To, CardOnly
  <2>4. QED
    BY <1>1, <1>3, <2>1, <2>3, ClipsGoOn
<1>4. QED
  BY <1>2, <1>3 DEF PublishClips, Move

LEMMA DiscardClipsStep == IInv /\ DiscardClips => IInv'
<1> SUFFICES ASSUME IInv, DiscardClips PROVE IInv'
  OBVIOUS
<1>1. op.step \in Undoing /\ op.step # "recover" /\ CardOnly /\ Goto("abandon clips")
  BY DEF DiscardClips, Undoing
<1>2. op \in Ops /\ CardType
  BY <1>1, Ready
<1>3. To("clips.tmp") \in Aside \cap Paths
  BY <1>2, AsidePaths
<1>4. Touches(Aside)
  BY <1>2, <1>3, AsideSteps DEF DiscardClips
<1>5. QED
  BY <1>1, <1>4, Retreats DEF Undoing, Goto

-----------------------------------------------------------------------------
(* The way back.                                                           *)

\* Either store may be rolled back where its preparation failed, and again later.
LEMMA DropStep ==
    ASSUME IInv, NEW kind \in Migrations, NEW here \in Undoing \ {"recover"},
           NEW restore \in Undoing, NEW next \in Undoing, Drop(kind, here, restore, next)
    PROVE  IInv'
<1>1. op \in Ops /\ CardType /\ op.step \in Undoing /\ op.step # "recover" /\ CardOnly
  BY Ready DEF Drop
<1>2. To(kind) \in Aside \cap Paths
  BY <1>1, AsidePaths DEF Migrations
<1>3. Touches(Aside) /\ (Goto(restore) \/ Goto(next))
  BY <1>1, <1>2, AsideSteps DEF Drop
<1>4. QED
  BY <1>1, <1>3, Retreats DEF Goto

LEMMA RestoreStep ==
    ASSUME IInv, NEW kind \in Migrations, NEW here \in Undoing \ {"recover"},
           NEW next \in Undoing, Restore(kind, here, next)
    PROVE  IInv'
<1> DEFINE over == [op EXCEPT !.step = next, !.active = @ \ {kind}]
<1>1. op \in Ops /\ CardType /\ RefsType /\ op.step \in Undoing /\ op.step # "recover"
      /\ CardOnly /\ "book" \notin op.moved /\ op.step \notin Committing \cup {"idle"}
  BY Ready DEF Restore
<1>2. To(kind) \in Aside \cap Paths /\ Parked(kind) \in Aside \cap Paths
  BY <1>1, AsidePaths DEF Migrations
<1>3. Touches(Aside) /\ (Goto(next) \/ op' = over)
  BY <1>1, <1>2, AsideSteps DEF Restore, Move
<1>4. CASE Goto(next)
  BY <1>1, <1>3, <1>4, Retreats DEF Goto
<1>5. CASE op' = over
  <2>1. next \in Steps /\ op.active \ {kind} \in SUBSET Migrations
    BY <1>1 DEF Undoing, Steps, Ops
  <2>2. /\ op' \in Ops /\ op'.step = next /\ op'.from = op.from /\ op'.to = op.to
        /\ op'.moved = op.moved
    BY <1>1, <1>5, <2>1 DEF Ops
  <2>3. Onward
    BY <1>1, <2>2 DEF Onward, CardOnly, refs, RefsType
  <2>4. QED
    BY <1>1, <1>3, <2>2, <2>3, GivingUp
<1>6. QED
  BY <1>3, <1>4, <1>5

LEMMA AbandonStep == IInv /\ (Abandon \/ RollBackPrepared) => IInv'
  BY DropStep, RestoreStep DEF Abandon, RollBackPrepared, Migrations, Undoing

\* Wherever the book is, there is what is to be kept for it.
LEMMA KeptAtTheBook == IInv => \A name \in Names : Book(name) => HasKept(Migrations, name)
<1> SUFFICES ASSUME IInv, NEW name \in Names, Book(name) PROVE HasKept(Migrations, name)
  OBVIOUS
<1>1. op \in Ops /\ {op.from, op.to} = Names /\ op.from # op.to
  BY DEF IInv, TypeOK, BookInv, Ops, Names
<1>2. CASE op.step = "idle"
  BY <1>2 DEF IInv, KeptInv
<1>3. CASE op.step # "idle" /\ name = op.to
  BY <1>3 DEF IInv, BookInv, KeptInv
<1>4. CASE op.step # "idle" /\ name = op.from
  <2>1. "book" \notin op.moved
    BY <1>4 DEF IInv, BookInv
  <2>2. op.step \notin Committing
    BY <2>1 DEF IInv, BookInv, Forth
  <2>3. QED
    BY <1>4, <2>2 DEF IInv, KeptInv
<1>5. QED
  BY <1>1, <1>2, <1>3, <1>4

LEMMA BackCacheStep == IInv /\ BackCache => IInv'
<1> SUFFICES ASSUME IInv, BackCache PROVE IInv'
  OBVIOUS
<1>1. op \in Ops /\ CardType /\ RefsType /\ "book" \notin op.moved /\ CardOnly
      /\ {op.from, op.to} = Names /\ op.from # op.to /\ op.step = "back cache"
  BY Ready DEF BackCache, Undoing
<1>2. To("cache") \in Paths /\ From("cache") \in Paths
  BY <1>1 DEF To, From, Kinds
<1>3. Touches({To("cache"), From("cache")})
  <2>1. Touches({}) => Touches({To("cache"), From("cache")})
    BY DEF Touches
  <2>2. MayRename(To("cache"), From("cache")) => Touches({To("cache"), From("cache")})
    BY <1>1, <1>2, Renames
  <2>3. Untouched => Touches({})
    BY <1>1, CardSteps
  <2>4. QED
    BY <2>1, <2>2, <2>3 DEF BackCache
<1>4. \A kind \in {"book", "marks", "clips"}, name \in Names :
          files'[<<kind, name>>] = files[<<kind, name>>]
  <2> SUFFICES ASSUME NEW kind \in {"book", "marks", "clips"}, NEW name \in Names
               PROVE  <<kind, name>> \in Paths \ {To("cache"), From("cache")}
    BY <1>3 DEF Touches
  <2> QED
    BY DEF Kinds, To, From
<1>5. /\ op' \in Ops /\ op'.step = "idle" /\ op'.result = "RolledBack"
      /\ op'.from = op.from /\ op'.to = op.to
  BY <1>1, Returning DEF BackCache, Results
<1>6. TypeOK'
  BY <1>1, <1>3, <1>5 DEF TypeOK, Touches, Ops, RefsType, CardOnly, refs, IInv
<1>7. Book(op.from) /\ ~Book(op.to) /\ \A name \in Names : Book(name)' <=> Book(name)
  BY <1>1, <1>4 DEF IInv, BookInv, Book, Exists
<1>8. BookInv'
  BY <1>1, <1>5, <1>7, Returning DEF BookInv, Forth, Committing, BackCache, Results, IInv
<1>9. \A name \in Names : Book(name)' => HasKept(Migrations, name)'
  BY <1>1, <1>4, <1>7, KeptAtTheBook, ZenonT(40) DEF HasKept, Readable, Migrations, CardOnly
<1>10. KeptInv' /\ CopyInv' /\ ResultInv'
  BY <1>1, <1>5, <1>7, <1>9, Returning DEF KeptInv, CopyInv, ResultInv, Prepared, Forth,
     Committing, ClipSteps, BackCache, Results
<1>11. QED
  BY <1>6, <1>8, <1>10 DEF IInv

LEMMA MoveCacheStep == IInv /\ MoveCache => IInv'
<1> SUFFICES ASSUME IInv, MoveCache PROVE IInv'
  OBVIOUS
<1>1. op \in Ops /\ CardType /\ RefsType /\ "book" \notin op.moved /\ CardOnly
      /\ op.step = "move cache" /\ op.step \notin Committing \cup {"idle"}
      /\ op.from \in Names /\ op.to \in Names /\ HasKept(Migrations, op.to)
  BY DEF MoveCache, IInv, TypeOK, Ops, RefsType, BookInv, KeptInv, Prepared, Forth, Committing
<1>2. To("cache") \in Aside \cap Paths /\ From("cache") \in Aside \cap Paths
  BY <1>1 DEF To, From, Kinds, Aside
<1>3. Touches(Aside) /\ Touches({From("cache"), To("cache")})
  <2>1. Touches({}) => Touches({From("cache"), To("cache")})
    BY DEF Touches
  <2>2. /\ Renamed(From("cache"), To("cache")) => Touches({From("cache"), To("cache")})
        /\ RenameFails(From("cache"), To("cache")) => Touches({})
        /\ Untouched => Touches({})
    BY <1>1, <1>2, Renames, CardSteps
  <2>3. Touches({From("cache"), To("cache")})
    BY <2>1, <2>2 DEF MoveCache, Move
  <2>4. {From("cache"), To("cache")} \subseteq Aside
    BY <1>2
  <2>5. QED
    BY <2>3, <2>4 DEF Touches
<1>4. \A kind \in Migrations : files'[<<kind, op.to>>] = files[<<kind, op.to>>]
  <2> SUFFICES ASSUME NEW kind \in Migrations
               PROVE  <<kind, op.to>> \in Paths \ {From("cache"), To("cache")}
    BY <1>3 DEF Touches
  <2> QED
    BY <1>1 DEF Kinds, To, From, Migrations
<1>5. ASSUME NEW step \in {"move book", "recover"}, NEW moved \in SUBSET {"cache"},
             op' = [op EXCEPT !.step = step, !.moved = moved] \/ op' = [op EXCEPT !.step = step]
      PROVE  IInv'
  <2>1. step \in Steps /\ moved \in SUBSET Moved
    BY DEF Steps, Moved
  <2>2. /\ op' \in Ops /\ op'.step = step /\ op'.from = op.from /\ op'.to = op.to
        /\ "book" \notin op'.moved
    <3>1. CASE op' = [op EXCEPT !.step = step, !.moved = moved]
      BY <1>1, <2>1, <3>1 DEF Ops
    <3>2. CASE op' = [op EXCEPT !.step = step]
      BY <1>1, <2>1, <3>2 DEF Ops
    <3>3. QED
      BY <1>5, <3>1, <3>2
  <2>3. Onward
    BY <1>1, <2>2 DEF Onward, CardOnly, refs, RefsType
  <2>4. HasKept(Migrations, op.to)'
    BY <1>1, <1>4, <2>2 DEF HasKept, Readable, CardOnly
  <2>5. CopyInv'
    BY <2>2 DEF CopyInv
  <2>6. QED
    BY <1>1, <1>3, <2>2, <2>3, <2>4, <2>5, Preparing DEF Undoing, ClipSteps
<1>6. QED
  BY <1>5 DEF MoveCache, Move, Goto

-----------------------------------------------------------------------------
(* The book moves, and what refers to it.                                  *)

\* The book goes to the name the result of the step says.
LEMMA BookMoves ==
    ASSUME IInv, NEW from \in Names, NEW to \in Names, {from, to} = {op.from, op.to},
           Renamed(<<"book", from>>, <<"book", to>>),
           \/ op.step \in {"move book", "again"} /\ to = op.to
           \/ op.step = "recover" /\ to = op.from,
           op' \in Ops, op'.from = op.from, op'.to = op.to, CardOnly,
           op'.step \in (IF to = op.to THEN {"move recent", "keep recent"} ELSE {"back open"}),
           "book" \in op'.moved <=> to = op.to,
           op.step = "recover" => "book" \in op.moved
    PROVE  IInv'
<1>1. op \in Ops /\ CardType /\ RefsType /\ {op.from, op.to} = Names /\ op.from # op.to
      /\ <<"book", from>> \in Paths /\ <<"book", to>> \in Paths
  BY ZenonT(40) DEF IInv, TypeOK, Ops, RefsType, BookInv, Names, Kinds
<1>2. Touches({<<"book", from>>, <<"book", to>>}) /\ files'[<<"book", from>>] = Absent
      /\ files'[<<"book", to>>] = files[<<"book", from>>] /\ Exists(<<"book", from>>)
  BY <1>1, Renames
<1>3. \A kind \in Migrations, name \in Names : files'[<<kind, name>>] = files[<<kind, name>>]
  <2> SUFFICES ASSUME NEW kind \in Migrations, NEW name \in Names
               PROVE  <<kind, name>> \in Paths \ {<<"book", from>>, <<"book", to>>}
    BY <1>2 DEF Touches
  <2> QED
    BY DEF Kinds, Migrations
<1>4. TypeOK'
  BY <1>1, <1>2 DEF TypeOK, Touches, Ops, RefsType, CardOnly, refs, IInv
<1>5. HasKept(Migrations, op.from) /\ HasKept(Migrations, op.to)
  BY DEF IInv, KeptInv, Prepared, Forth, Committing
<1>6. HasKept(Migrations, op.from)' /\ HasKept(Migrations, op.to)'
  <2>1. history' = history /\ op.from \in Names /\ op.to \in Names
    BY <1>1 DEF CardOnly
  <2>2. \A kind \in Migrations : files'[<<kind, op.from>>] = files[<<kind, op.from>>]
    BY <1>3, <2>1
  <2>3. \A kind \in Migrations : files'[<<kind, op.to>>] = files[<<kind, op.to>>]
    BY <1>3, <2>1
  <2>4. HasKept(Migrations, op.from)'
    BY <1>5, <2>1, <2>2 DEF HasKept, Readable
  <2>5. HasKept(Migrations, op.to)'
    BY <1>5, <2>1, <2>3 DEF HasKept, Readable
  <2>6. QED
    BY <2>4, <2>5
<1>7. Book(to)' /\ ~Book(from)'
  BY <1>2 DEF Book, Exists
<1>8. BookInv'
  BY <1>1, <1>7 DEF BookInv, Forth, Committing
<1>9. KeptInv' /\ CopyInv' /\ ResultInv'
  BY <1>6 DEF KeptInv, CopyInv, ResultInv, Committing, ClipSteps
<1>10. QED
  BY <1>4, <1>8, <1>9 DEF IInv

\* No file changes and the rename goes on.
LEMMA Standing ==
    ASSUME IInv, op.step \in Prepared \cup {"recover"}, op.step \notin Committing,
           files' = files, CardType', RefsType', history' = history,
           op' \in Ops, op'.from = op.from, op'.to = op.to,
           op'.moved \cap {"book"} = op.moved \cap {"book"},
           op'.step \notin MarkSteps \cup ClipSteps \cup {"idle"},
           op'.step \in Forth => "book" \in op.moved,
           "book" \in op.moved => op'.step \in Forth \cup {"recover"},
           op'.step \in Prepared => op.step # "recover" \/ "book" \in op.moved,
           op'.step \in Committing => op'.result \in {"Success", "KeepRenamed"}
    PROVE  IInv'
<1>1. op.step # "idle"
  BY DEF Prepared, Forth, Committing
<1>2. TypeOK'
  BY DEF TypeOK, Ops, RefsType, IInv
<1>3. BookInv'
  BY <1>1 DEF BookInv, IInv, Book, Exists
<1>4. /\ HasKept(Migrations, op.from)
      /\ op'.step \in Prepared \/ "book" \in op.moved => HasKept(Migrations, op.to)
  BY <1>1 DEF IInv, KeptInv
<1>5. KeptInv'
  BY <1>4 DEF KeptInv, HasKept, Readable
<1>6. CopyInv' /\ ResultInv'
  BY DEF CopyInv, ResultInv, MarkSteps, ClipSteps
<1>7. QED
  BY <1>2, <1>3, <1>5, <1>6 DEF IInv

\* The steps of the preparation are over.
LEMMA Over ==
    /\ (Prepared \cup Undoing) \cap (MarkSteps \cup ClipSteps \cup {"idle"}) = {}
    /\ {"move recent", "move open", "keep recent", "keep open", "commit marks"} \subseteq Forth
    /\ {"back open", "back recent", "again"} \subseteq Prepared \ Forth
    /\ "recover" \notin Prepared /\ Undoing \cap Prepared = {}
    /\ Forth \subseteq Prepared /\ Committing \subseteq Forth
    /\ Prepared \cup Undoing \subseteq Steps
  BY DEF Prepared, Undoing, Forth, Committing, MarkSteps, ClipSteps, Steps

LEMMA ReadyToMove ==
    ASSUME IInv, op.step \in Prepared \cup {"recover"}
    PROVE  /\ op \in Ops /\ CardType /\ RefsType /\ op.from # op.to
           /\ op.from \in Names /\ op.to \in Names
           /\ From("book") \in Paths /\ To("book") \in Paths
           /\ op.step \in Forth => "book" \in op.moved
           /\ "book" \in op.moved => op.step \in Forth \cup {"recover"}
  BY DEF IInv, TypeOK, Ops, RefsType, BookInv, From, To, Kinds

LEMMA MoveBookStep == IInv /\ (MoveBook \/ MoveAgain) => IInv'
<1> SUFFICES ASSUME IInv, MoveBook \/ MoveAgain PROVE IInv'
  OBVIOUS
<1>1. op.step \in {"move book", "again"} /\ op.step \in Prepared /\ CardOnly
      /\ op.step \notin Forth \cup {"idle"}
  BY DEF MoveBook, MoveAgain, Prepared, Forth, Committing
<1>2. op \in Ops /\ CardType /\ RefsType /\ op.from # op.to
      /\ op.from \in Names /\ op.to \in Names
      /\ From("book") \in Paths /\ To("book") \in Paths /\ "book" \notin op.moved
  BY <1>1, ReadyToMove
<1>3. ASSUME NEW step \in {"recover", "drop clips"}, Goto(step),
             RenameFails(From("book"), To("book"))
      PROVE  IInv'
  <2>1. On(step) /\ step \in Undoing
    BY <1>2, <1>3, Going, Over DEF Goto, Undoing
  <2>2. Touches(Aside)
    <3>1. Touches({})
      BY <1>2, <1>3, Renames
    <3>2. QED
      BY <3>1 DEF Touches
  <2>3. Onward
    BY <1>1, <1>2, <2>1 DEF On, Onward, CardOnly, refs, RefsType
  <2>4. QED
    BY <1>1, <1>2, <2>1, <2>2, <2>3, GivingUp, Over DEF On
<1>4. ASSUME NEW step \in {"move recent", "keep recent"}, Renamed(From("book"), To("book")),
             op' = [op EXCEPT !.step = step, !.moved = @ \cup {"book"}]
      PROVE  IInv'
  <2>1. step \in Steps /\ op.moved \cup {"book"} \in SUBSET Moved
    BY <1>2 DEF Steps, Moved, Ops
  <2>2. /\ op' \in Ops /\ op'.from = op.from /\ op'.to = op.to
        /\ op'.step \in {"move recent", "keep recent"} /\ "book" \in op'.moved
    BY <1>2, <1>4, <2>1 DEF Ops
  <2>3. Renamed(<<"book", op.from>>, <<"book", op.to>>)
    BY <1>4 DEF From, To
  <2>4. op.step # "recover"
    BY <1>1
  <2>5. QED
    BY <1>1, <1>2, <2>2, <2>3, <2>4, BookMoves
<1>5. QED
  BY <1>3, <1>4 DEF MoveBook, MoveAgain, Move

LEMMA RecoverStep == IInv /\ Recover => IInv'
<1> SUFFICES ASSUME IInv, Recover PROVE IInv'
  OBVIOUS
<1>1. op.step = "recover" /\ CardOnly /\ op.step \notin Committing \cup {"idle"}
  BY DEF Recover, Committing
<1>2. op \in Ops /\ CardType /\ RefsType /\ op.from # op.to
      /\ op.from \in Names /\ op.to \in Names
      /\ From("book") \in Paths /\ To("book") \in Paths
  BY <1>1, ReadyToMove
<1>3. CASE "book" \notin op.moved
  <2>1. Untouched /\ Goto("drop clips")
    BY <1>3 DEF Recover
  <2>2. On("drop clips") /\ "drop clips" \in Undoing
    BY <1>2, <2>1, Going, Over DEF Goto, Undoing
  <2>3. Touches(Aside) /\ Onward
    BY <1>1, <1>2, <2>1, <2>2, CardSteps DEF Touches, On, Onward, CardOnly, refs, RefsType
  <2>4. QED
    BY <1>1, <1>3, <2>2, <2>3, GivingUp DEF On
<1>4. CASE "book" \in op.moved /\ RenameFails(To("book"), From("book")) /\ Goto("keep recent")
  <2>1. On("keep recent")
    BY <1>2, <1>4, Going DEF Goto, Steps
  <2>2. files' = files /\ CardType'
    BY <1>2, <1>4, Renames DEF Touches
  <2>3. QED
    BY <1>1, <1>2, <1>4, <2>1, <2>2, Standing, Over DEF On, CardOnly, refs, RefsType, Committing
<1>5. CASE /\ "book" \in op.moved /\ Renamed(To("book"), From("book"))
           /\ op' = [op EXCEPT !.step = "back open", !.moved = @ \ {"book"}]
  <2>1. "back open" \in Steps /\ op.moved \ {"book"} \in SUBSET Moved
    BY <1>2 DEF Steps, Moved, Ops
  <2>2. /\ op' \in Ops /\ op'.step = "back open" /\ op'.from = op.from /\ op'.to = op.to
        /\ "book" \notin op'.moved
    BY <1>2, <1>5, <2>1 DEF Ops
  <2>3. Renamed(<<"book", op.to>>, <<"book", op.from>>)
    BY <1>5 DEF From, To
  <2>4. QED
    BY <1>1, <1>2, <1>5, <2>2, <2>3, BookMoves
<1>6. QED
  BY <1>3, <1>4, <1>5 DEF Recover, Move

\* What refers to the book changes and the card's other files do not.
LEMMA ReferenceSteps ==
    ASSUME CardType, RefsType, NEW old \in Names, NEW new \in Names,
           \/ UpdatePath(old, new, TRUE, TRUE)
           \/ SaveOpenPath(new, TRUE, TRUE)
           \/ Untouched /\ CardOnly
    PROVE  CardType' /\ RefsType' /\ files' = files /\ history' = history
<1>1. CASE UpdatePath(old, new, TRUE, TRUE)
  BY <1>1 DEF CardType, RefsType, UpdatePath, Fault, Unharmed
<1>2. CASE SaveOpenPath(new, TRUE, TRUE)
  BY <1>2 DEF CardType, RefsType, SaveOpenPath, Fault, Unharmed
<1>3. CASE Untouched /\ CardOnly
  BY <1>3 DEF CardType, RefsType, Untouched, CardOnly, refs
<1>4. QED
  BY <1>1, <1>2, <1>3

LEMMA MoveRecentStep == IInv /\ MoveRecent => IInv'
<1> SUFFICES ASSUME IInv, MoveRecent PROVE IInv'
  OBVIOUS
<1>1. op.step = "move recent" /\ op.step \in Prepared /\ op.step \in Forth
      /\ op.step \notin Committing
  BY Over DEF MoveRecent, Committing
<1>2. op \in Ops /\ CardType /\ RefsType /\ op.from \in Names /\ op.to \in Names
      /\ "book" \in op.moved
  BY <1>1, ReadyToMove
<1>3. CardType' /\ RefsType' /\ files' = files /\ history' = history
      /\ \/ op' = [op EXCEPT !.step = "move open", !.moved = @ \cup {"recent"}]
         \/ op' = [op EXCEPT !.step = "recover"]
  <2>1. UpdatePath(op.from, op.to, TRUE, TRUE)
    BY DEF MoveRecent, UpdatePath
  <2>2. \/ op' = [op EXCEPT !.step = "move open", !.moved = @ \cup {"recent"}]
        \/ op' = [op EXCEPT !.step = "recover"]
    BY DEF MoveRecent, UpdatePath, Goto
  <2>3. QED
    BY <1>2, <2>1, <2>2, ReferenceSteps
<1>4. /\ op' \in Ops /\ op'.from = op.from /\ op'.to = op.to /\ "book" \in op'.moved
      /\ op'.step \in {"move open", "recover"}
  <2>1. {"move open", "recover"} \subseteq Steps /\ op.moved \cup {"recent"} \in SUBSET Moved
    BY <1>2 DEF Steps, Moved, Ops
  <2>2. QED
    BY <1>2, <1>3, <2>1 DEF Ops
<1>5. QED
  BY <1>1, <1>2, <1>3, <1>4, Standing, Over DEF Committing, MarkSteps, ClipSteps

LEMMA MoveOpenStep == IInv /\ MoveOpen => IInv'
<1> SUFFICES ASSUME IInv, MoveOpen PROVE IInv'
  OBVIOUS
<1>1. op.step = "move open" /\ op.step \in Prepared /\ op.step \in Forth
      /\ op.step \notin Committing
  BY Over DEF MoveOpen, Committing
<1>2. op \in Ops /\ CardType /\ RefsType /\ op.from \in Names /\ op.to \in Names
      /\ "book" \in op.moved
  BY <1>1, ReadyToMove
<1>3. CardType' /\ RefsType' /\ files' = files /\ history' = history
      /\ \/ op' = [op EXCEPT !.step = "commit marks", !.moved = @ \cup {"open"},
                             !.result = "Success"]
         \/ op' = [op EXCEPT !.step = "recover", !.moved = @ \cup {"open"}]
         \/ op' = [op EXCEPT !.step = "commit marks", !.result = "Success"]
  <2>1. SaveOpenPath(op.to, TRUE, TRUE) \/ (Untouched /\ CardOnly)
    BY DEF MoveOpen, SaveOpenPath
  <2>2. \/ op' = [op EXCEPT !.step = "commit marks", !.moved = @ \cup {"open"},
                            !.result = "Success"]
        \/ op' = [op EXCEPT !.step = "recover", !.moved = @ \cup {"open"}]
        \/ op' = [op EXCEPT !.step = "commit marks", !.result = "Success"]
    BY DEF MoveOpen, SaveOpenPath
  <2>3. QED
    BY <1>2, <2>1, <2>2, ReferenceSteps
<1>4. /\ op' \in Ops /\ op'.from = op.from /\ op'.to = op.to /\ "book" \in op'.moved
      /\ \/ op'.step = "commit marks" /\ op'.result = "Success"
         \/ op'.step = "recover"
  <2>1. {"commit marks", "recover"} \subseteq Steps /\ op.moved \cup {"open"} \in SUBSET Moved
        /\ "Success" \in Results
    BY <1>2 DEF Steps, Moved, Ops, Results
  <2>2. QED
    BY <1>2, <1>3, <2>1 DEF Ops
<1>5. QED
  BY <1>1, <1>2, <1>3, <1>4, Standing, Over DEF Committing, MarkSteps, ClipSteps

LEMMA BackOpenStep == IInv /\ BackOpen => IInv'
<1> SUFFICES ASSUME IInv, BackOpen PROVE IInv'
  OBVIOUS
<1>1. op.step = "back open" /\ op.step \in Prepared /\ op.step \notin Forth \cup {"recover"}
      /\ op.step \notin Committing
  BY Over DEF BackOpen, Committing
<1>2. op \in Ops /\ CardType /\ RefsType /\ op.from \in Names /\ op.to \in Names
      /\ "book" \notin op.moved
  BY <1>1, ReadyToMove
<1>3. CardType' /\ RefsType' /\ files' = files /\ history' = history
      /\ \/ op' = [op EXCEPT !.step = "back recent", !.moved = @ \ {"open"}]
         \/ op' = [op EXCEPT !.step = "back recent"]
  <2>1. SaveOpenPath(op.from, TRUE, TRUE) \/ (Untouched /\ CardOnly)
    BY DEF BackOpen, SaveOpenPath
  <2>2. \/ op' = [op EXCEPT !.step = "back recent", !.moved = @ \ {"open"}]
        \/ op' = [op EXCEPT !.step = "back recent"]
    BY DEF BackOpen, SaveOpenPath, Goto
  <2>3. QED
    BY <1>2, <2>1, <2>2, ReferenceSteps
<1>4. /\ op' \in Ops /\ op'.from = op.from /\ op'.to = op.to /\ "book" \notin op'.moved
      /\ op'.step = "back recent"
  <2>1. "back recent" \in Steps /\ op.moved \ {"open"} \in SUBSET Moved
    BY <1>2 DEF Steps, Ops
  <2>2. QED
    BY <1>2, <1>3, <2>1 DEF Ops
<1>5. QED
  BY <1>1, <1>2, <1>3, <1>4, Standing, Over DEF Committing, MarkSteps, ClipSteps

LEMMA BackRecentStep == IInv /\ BackRecent => IInv'
<1> SUFFICES ASSUME IInv, BackRecent PROVE IInv'
  OBVIOUS
<1>1. op.step = "back recent" /\ op.step \in Prepared /\ op.step \notin Forth \cup {"recover"}
      /\ op.step \notin Committing
  BY Over DEF BackRecent, Committing
<1>2. op \in Ops /\ CardType /\ RefsType /\ op.from \in Names /\ op.to \in Names
      /\ "book" \notin op.moved
  BY <1>1, ReadyToMove
<1>3. CardType' /\ RefsType' /\ files' = files /\ history' = history
      /\ \E moved \in SUBSET op.moved, step \in {"drop clips", "again"} :
            op' = [op EXCEPT !.moved = moved, !.step = step]
  <2> DEFINE next(moved) == [op EXCEPT !.moved = moved,
                 !.step = IF moved \cap {"open", "recent"} = {} THEN "drop clips" ELSE "again"]
  <2>1. UpdatePath(op.to, op.from, TRUE, TRUE) \/ (Untouched /\ CardOnly)
    BY DEF BackRecent, UpdatePath
  <2>2. op' = next(op.moved \ {"recent"}) \/ op' = next(op.moved)
    BY DEF BackRecent, UpdatePath
  <2>3. \E moved \in SUBSET op.moved : op' = next(moved)
    <3>1. op.moved \ {"recent"} \in SUBSET op.moved /\ op.moved \in SUBSET op.moved
      OBVIOUS
    <3> HIDE DEF next
    <3>2. QED
      BY <2>2, <3>1
  <2>4. \E moved \in SUBSET op.moved, step \in {"drop clips", "again"} :
            op' = [op EXCEPT !.moved = moved, !.step = step]
    BY <2>3
  <2>5. QED
    BY <1>2, <2>1, <2>4, ReferenceSteps
<1>4. /\ op' \in Ops /\ op'.from = op.from /\ op'.to = op.to /\ "book" \notin op'.moved
      /\ op'.step \in {"drop clips", "again"}
  <2>1. PICK moved \in SUBSET op.moved, step \in {"drop clips", "again"} :
            op' = [op EXCEPT !.moved = moved, !.step = step]
    BY <1>3
  <2>2. step \in Steps /\ moved \in SUBSET Moved
    BY <1>2 DEF Steps, Ops
  <2>3. QED
    BY <1>2, <2>1, <2>2 DEF Ops
<1>5. op'.step \in Prepared \cup Undoing /\ op'.step \notin Forth \cup {"recover"}
      /\ op'.step \notin Committing
  BY <1>4, Over DEF Prepared, Undoing, Forth, Committing
<1>6. QED
  BY <1>1, <1>2, <1>3, <1>4, <1>5, Standing, Over

LEMMA KeepStep == IInv /\ (KeepRecent \/ KeepOpen) => IInv'
<1> SUFFICES ASSUME IInv, KeepRecent \/ KeepOpen PROVE IInv'
  OBVIOUS
<1>1. op.step \in {"keep recent", "keep open"} /\ op.step \in Prepared /\ op.step \in Forth
      /\ op.step \notin Committing
  BY Over DEF KeepRecent, KeepOpen, Committing
<1>2. op \in Ops /\ CardType /\ RefsType /\ op.from \in Names /\ op.to \in Names
      /\ "book" \in op.moved
  BY <1>1, ReadyToMove
<1>3. CardType' /\ RefsType' /\ files' = files /\ history' = history
      /\ \/ op' = [op EXCEPT !.step = "keep open"]
         \/ op' = [op EXCEPT !.step = "commit marks", !.result = "KeepRenamed"]
  <2>1. CASE KeepRecent
    <3>1. UpdatePath(op.from, op.to, TRUE, TRUE)
      BY <2>1 DEF KeepRecent, UpdatePath
    <3>2. op' = [op EXCEPT !.step = "keep open"]
      BY <2>1 DEF KeepRecent, UpdatePath, Goto
    <3>3. QED
      BY <1>2, <3>1, <3>2, ReferenceSteps
  <2>2. CASE KeepOpen
    <3>1. SaveOpenPath(op.to, TRUE, TRUE) \/ (Untouched /\ CardOnly)
      BY <2>2 DEF KeepOpen, SaveOpenPath
    <3>2. op' = [op EXCEPT !.step = "commit marks", !.result = "KeepRenamed"]
      BY <2>2 DEF KeepOpen, SaveOpenPath
    <3>3. QED
      BY <1>2, <3>1, <3>2, ReferenceSteps
  <2>3. QED
    BY <2>1, <2>2
<1>4. /\ op' \in Ops /\ op'.from = op.from /\ op'.to = op.to /\ "book" \in op'.moved
      /\ \/ op'.step = "commit marks" /\ op'.result = "KeepRenamed"
         \/ op'.step = "keep open"
  <2>1. {"commit marks", "keep open"} \subseteq Steps /\ "KeepRenamed" \in Results
    BY DEF Steps, Results
  <2>2. QED
    BY <1>2, <1>3, <2>1 DEF Ops
<1>5. QED
  BY <1>1, <1>2, <1>3, <1>4, Standing, Over DEF Committing, MarkSteps, ClipSteps

\* The sources go, and what was put aside.
LEMMA Committed ==
    ASSUME IInv, op.step \in Committing, NEW kind \in Migrations, CardOnly,
           \/ Untouched
           \/ MayRemove(From(kind))
           \/ MayRemove(Parked(kind)),
           op' \in Ops, op'.from = op.from, op'.to = op.to, op'.result = op.result,
           \/ op'.step \in Committing /\ op'.moved = op.moved
           \/ op'.step = "idle" /\ op'.moved = {}
    PROVE  IInv'
<1>1. op \in Ops /\ CardType /\ RefsType /\ {op.from, op.to} = Names /\ op.from # op.to
      /\ op.from \in Names /\ op.to \in Names
  BY DEF IInv, TypeOK, Ops, RefsType, BookInv, Names
<1>2. op.step \in Prepared /\ op.step \in Forth /\ op.step # "idle"
  BY Over
<1>3. "book" \in op.moved /\ Book(op.to) /\ ~Book(op.from)
  BY <1>2 DEF IInv, BookInv
<1>4. From(kind) \in Paths /\ Parked(kind) \in Paths
  BY <1>1 DEF From, Parked, Kinds, Migrations
<1>5. Touches({From(kind), Parked(kind)})
  <2>1. \A paths \in {{}, {From(kind)}, {Parked(kind)}} :
            Touches(paths) => Touches({From(kind), Parked(kind)})
    BY DEF Touches
  <2>2. Untouched => Touches({})
    BY <1>1, CardSteps
  <2>3. MayRemove(From(kind)) => Touches({From(kind)})
    BY <1>1, <1>4, Removals
  <2>4. MayRemove(Parked(kind)) => Touches({Parked(kind)})
    BY <1>1, <1>4, Removals
  <2>5. QED
    BY <2>1, <2>2, <2>3, <2>4
<1>6. files'[<<"book", op.from>>] = files[<<"book", op.from>>]
      /\ files'[<<"book", op.to>>] = files[<<"book", op.to>>]
  <2>1. <<"book", op.from>> \in Paths \ {From(kind), Parked(kind)}
        /\ <<"book", op.to>> \in Paths \ {From(kind), Parked(kind)}
    BY <1>1 DEF From, Parked, Kinds, Migrations
  <2>2. QED
    BY <1>5, <2>1 DEF Touches
<1>7. \A other \in Migrations : files'[<<other, op.to>>] = files[<<other, op.to>>]
  <2> SUFFICES ASSUME NEW other \in Migrations
               PROVE  <<other, op.to>> \in Paths \ {From(kind), Parked(kind)}
    BY <1>5 DEF Touches
  <2> QED
    BY <1>1 DEF From, Parked, Kinds, Migrations
<1>8. TypeOK'
  BY <1>1, <1>5 DEF TypeOK, Touches, Ops, RefsType, CardOnly, refs, IInv
<1>9. Book(op.to)' /\ ~Book(op.from)'
  BY <1>3, <1>6 DEF Book, Exists
<1>10. BookInv'
  BY <1>1, <1>3, <1>9, Over DEF BookInv, Forth
<1>11. HasKept(Migrations, op.to)
  BY <1>1, <1>3, KeptAtTheBook
<1>12. history' = history
  BY DEF CardOnly
<1>13. HasKept(Migrations, op.to)'
  BY <1>7, <1>11, <1>12 DEF HasKept, Readable
<1>14. KeptInv'
  <2>1. ASSUME NEW name \in Names, Book(name)' PROVE HasKept(Migrations, name)'
    <3>1. name = op.to
      BY <1>1, <1>9, <2>1 DEF Book, Exists
    <3>2. QED
      BY <1>13, <3>1 DEF HasKept, Readable
  <2>2. QED
    BY <1>13, <2>1, Over DEF KeptInv, Committing, ClipSteps
<1>15. CopyInv'
  BY DEF CopyInv, Committing
<1>16. ResultInv'
  BY <1>9 DEF ResultInv, IInv
<1>17. QED
  BY <1>8, <1>10, <1>14, <1>15, <1>16 DEF IInv

LEMMA CommitStep == IInv /\ CommitMetadata => IInv'
<1> SUFFICES ASSUME IInv, CommitMetadata PROVE IInv'
  OBVIOUS
<1>1. op \in Ops
  BY DEF IInv, TypeOK, Ops
<1>2. ASSUME NEW kind \in Migrations, NEW here \in Committing, NEW next \in Committing,
             Commit(kind, here, next) \/ Tidy(kind, here, Goto(next))
      PROVE  IInv'
  <2>1. Goto(next) /\ op.step \in Committing /\ CardOnly
        /\ (Untouched \/ MayRemove(From(kind)) \/ MayRemove(Parked(kind)))
    BY <1>2 DEF Commit, Tidy
  <2>2. On(next)
    BY <1>1, <2>1, Going, Over DEF Goto
  <2>3. QED
    BY <2>1, <2>2, Committed DEF On
<1>3. CASE Tidy("clips", "tidy clips", Return(op.result))
  <2>1. Return(op.result) /\ op.step \in Committing /\ CardOnly
        /\ (Untouched \/ MayRemove(Parked("clips")))
    BY <1>3 DEF Tidy, Committing
  <2>2. op.result \in Results
    BY <1>1 DEF Ops
  <2>3. QED
    BY <1>1, <2>1, <2>2, Returning, Committed DEF Migrations
<1>4. QED
  BY <1>2, <1>3 DEF CommitMetadata, Migrations, Committing

LEMMA BeginStep == IInv /\ Begin => IInv'
<1> SUFFICES ASSUME IInv, Begin PROVE IInv'
  OBVIOUS
<1>1. PICK from \in Names, to \in Names :
          /\ Exists(<<"book", from>>) /\ ~Exists(<<"book", to>>)
          /\ op' = [Idle("none", from, to) EXCEPT !.step = "marks",
                                                  !.open = (openMem = from)]
  BY DEF Begin
<1>2. op.step = "idle" /\ Untouched /\ CardOnly /\ CardType /\ RefsType
  BY DEF Begin, IInv, TypeOK, RefsType
<1>3. op' = [step |-> "marks", from |-> from, to |-> to, active |-> {}, parked |-> {},
             moved |-> {}, open |-> (openMem = from), result |-> "none"]
  BY <1>1 DEF Idle
<1>4. /\ op' \in Ops /\ op'.step = "marks" /\ op'.from = from /\ op'.to = to
      /\ op'.moved = {} /\ op'.parked = {}
  <2>1. "marks" \in Steps /\ "none" \in Results
    BY DEF Steps, Results
  <2>2. QED
    BY <1>3, <2>1 DEF Ops
<1>5. files' = files /\ CardType' /\ history' = history
  BY <1>2 DEF CardType, Untouched, CardOnly
<1>6. TypeOK'
  BY <1>2, <1>4, <1>5 DEF TypeOK, Ops, RefsType, CardOnly, refs, IInv
<1>7. BookInv'
  BY <1>1, <1>4, <1>5 DEF BookInv, Book, Exists, Forth, Committing
<1>8. HasKept(Migrations, from)'
  BY <1>1, <1>5, KeptAtTheBook DEF HasKept, Readable, Book
<1>9. KeptInv' /\ CopyInv' /\ ResultInv'
  BY <1>4, <1>8 DEF KeptInv, CopyInv, ResultInv, Prepared, Forth, Committing, ClipSteps, HasKept
<1>10. QED
  BY <1>6, <1>7, <1>9 DEF IInv

LEMMA PowerLossStep == IInv /\ PowerLoss => IInv'
<1> SUFFICES ASSUME IInv, PowerLoss PROVE IInv'
  OBVIOUS
<1>1. op \in Ops /\ CardType /\ RefsType /\ Return("none")
  BY DEF PowerLoss, Return, IInv, TypeOK, Ops, RefsType
<1>2. /\ op' \in Ops /\ op'.step = "idle" /\ op'.result = "none"
      /\ op'.from = op.from /\ op'.to = op.to
  BY <1>1, Returning DEF Results
<1>3. files' = files /\ CardType' /\ history' = history /\ RefsType'
  <2>1. openCard' \in Names \cup {None}
    BY <1>1 DEF PowerLoss, RefsType
  <2>2. openMem' = openCard' /\ recent' = recent /\ history' = history
    BY DEF PowerLoss
  <2>3. RefsType'
    BY <1>1, <2>1, <2>2 DEF RefsType
  <2>4. files' = files /\ CardType'
    <3>1. files' = files /\ faults' = faults + 1
      BY DEF PowerLoss, PowerFails, Fault
    <3>2. QED
      BY <1>1, <3>1 DEF CardType
  <2>5. QED
    BY <2>2, <2>3, <2>4
<1>4. TypeOK'
  BY <1>2, <1>3 DEF TypeOK, Ops, RefsType, IInv
<1>5. BookInv'
  BY <1>1, <1>2, <1>3, Returning DEF BookInv, Book, Exists, Forth, Committing, IInv, Results
<1>6. \A name \in Names : Book(name)' => HasKept(Migrations, name)'
  BY <1>3, KeptAtTheBook DEF HasKept, Readable, Book, Exists
<1>7. KeptInv' /\ CopyInv' /\ ResultInv'
  BY <1>1, <1>2, <1>6, Returning DEF KeptInv, CopyInv, ResultInv, Prepared, Forth, Committing,
     ClipSteps, Results
<1>8. QED
  BY <1>4, <1>5, <1>7 DEF IInv

LEMMA StepIInv == IInv /\ [Next]_vars => IInv'
<1> SUFFICES ASSUME IInv, [Next]_vars PROVE IInv'
  OBVIOUS
<1>1. CASE UNCHANGED vars
  <2>1. UNCHANGED <<files, faults, op, recent, openMem, openCard, kept, cut>>
    BY <1>1 DEF vars, cardVars, refs
  <2>2. TypeOK'
    BY <2>1 DEF IInv, TypeOK, CardType
  <2>3. BookInv'
    BY <2>1 DEF IInv, BookInv, Book, Exists
  <2>4. KeptInv'
    BY <2>1 DEF IInv, KeptInv, Book, Exists, HasKept, Readable
  <2>5. CopyInv'
    BY <2>1 DEF IInv, CopyInv, From, To, Parked
  <2>6. ResultInv'
    BY <2>1 DEF IInv, ResultInv, Book, Exists
  <2>7. QED
    BY <2>2, <2>3, <2>4, <2>5, <2>6 DEF IInv
<1>2. CASE Begin \/ PowerLoss
  BY <1>2, BeginStep, PowerLossStep
<1>3. CASE BeginMarks
  BY <1>3, RecoverMarksStep, ReadMarksStep, CleanMarksStep, ParkMarksStep, OpenMarksStep,
     WriteMarksStep DEF BeginMarks
<1>4. CASE BeginClips
  BY <1>4, RecoverClipsStep, ReadClipsStep, SettleClipsStep, CleanClipsStep, ParkClipsStep,
     OpenClipsStep, WriteClipsStep, PublishClipsStep, DiscardClipsStep DEF BeginClips
<1>5. CASE Abandon
  BY <1>5, AbandonStep
<1>6. CASE Migrate
  BY <1>6, MoveCacheStep, MoveBookStep, MoveRecentStep, MoveOpenStep, CommitStep DEF Migrate
<1>7. CASE GoBack
  BY <1>7, RecoverStep, BackOpenStep, BackRecentStep, MoveBookStep, KeepStep, AbandonStep,
     BackCacheStep DEF GoBack
<1>8. QED
  BY <1>1, <1>2, <1>3, <1>4, <1>5, <1>6, <1>7 DEF Next

-----------------------------------------------------------------------------
(* The theorems about any number of faults.                                *)

\* The inductive invariant holds at every moment, faults and restarts included.
THEOREM Inductive == Spec => []IInv
  BY InitIInv, StepIInv, PTL DEF Spec

\* Every variable keeps its type: no path gets a content, and no rename a step, that
\* the code does not know.
THEOREM TypeCorrect == Spec => []TypeOK
<1>1. IInv => TypeOK
  BY DEF IInv
<1>2. QED
  BY Inductive, <1>1, PTL

\* At every moment of migrateRenamedBookState(), however often the card fails or power is
\* lost, what the book had is readable at the name it has then.  Bookmarks are excepted
\* when their own write at that name was the one to fail (WriteMarks): the code does not
\* see that, takes the short file for the merged bookmarks and deletes the old ones.
THEOREM MetadataStaysReachable == Spec => []MetadataFollowsBook
<1>1. IInv => MetadataFollowsBook
  <2> SUFFICES ASSUME IInv PROVE MetadataFollowsBook
    OBVIOUS
  <2>1. PICK name \in Names : Book(name)
    BY DEF IInv, BookInv
  <2>2. HasKept(Migrations, name)
    BY <2>1, KeptAtTheBook
  <2>3. QED
    BY <2>1, <2>2 DEF MetadataFollowsBook, Book, HasKept
<1>2. QED
  BY Inductive, <1>1, PTL

\* What migrateRenamedBookState() returns to the file browser is where the book is.
THEOREM ResultsAreTrue == Spec => []ResultTellsPlace
<1>1. IInv => ResultTellsPlace
  <2> SUFFICES ASSUME IInv, op.step = "idle" PROVE ResultTellsPlace
    BY DEF ResultTellsPlace
  <2>1. {op.from, op.to} = Names /\ op.from \in Names /\ op.to \in Names
    BY DEF IInv, TypeOK, BookInv, Names
  <2>2. ~(Book(op.from) /\ Book(op.to))
    BY DEF IInv, BookInv
  <2>3. \A name \in Names : Book(name) => BookName = name
    BY <2>1, <2>2 DEF BookName, Book
  <2>4. QED
    BY <2>1, <2>3 DEF ResultTellsPlace, IInv, ResultInv
<1>2. QED
  BY Inductive, <1>1, PTL

-----------------------------------------------------------------------------
(* One failure is undone: the invariant.                                   *)

\* Nothing has been moved yet.
Before == MarkSteps \cup ClipSteps \cup {"move cache"}

\* The book moves, and then what refers to it.
Moving == {"move book", "move recent", "move open"}

\* The book has moved and is moved back.
Back ==
    \/ "book" \in op.moved /\ op.step = "recover"
    \/ op.step \in {"back open", "back recent"}

\* The book is at its old name and what was prepared is undone.
Undone == "book" \notin op.moved /\ op.step \in Undoing

RefsAt(name) == {recent, openMem, openCard} \subseteq {name, None}

CacheAt(name) == \A other \in Names \ {name} : files[<<"cache", other>>] # {"mine"}

\* What MoveCache leaves: the cache is at the new name, or there was none.
CacheMoved ==
    IF "cache" \in op.moved THEN ~Exists(From("cache")) /\ Exists(To("cache"))
    ELSE CacheAt(op.from)

AllWhole == \A path \in Paths : files[path] # Torn

\* No file is torn but the one that is being written.
NoneTorn ==
    \A path \in Paths : files[path] = Torn =>
        \/ op.step = "write marks" /\ path = To("marks")
        \/ op.step = "write clips" /\ path = To("clips.tmp")

\* Power was lost in a rename in which nothing had failed before.
CutOff ==
    /\ faults = 1 /\ NoneTorn
    /\ \E name \in Names : ~Exists(<<"cache", name>>)

\* A file is renamed only where there is none, so that it can fail only by a fault.
FreeInv ==
    /\ op.step = "park marks" => Exists(To("marks")) /\ ~Exists(Parked("marks"))
    /\ op.step = "park clips" => ~Exists(Parked("clips"))
    /\ op.step \in {"open clips", "write clips", "publish clips"} => ~Exists(To("clips"))

\* Each step has moved what it says; the second way forward takes two faults.
StageInv ==
    /\ op.step \in Before => op.moved = {}
    /\ op.step \in {"move book", "move recent"} \/ Undone =>
          op.moved \cap {"recent", "open"} = {}
    /\ op.step = "move open" => op.moved \cap {"recent", "open"} = {"recent"}
    /\ op.step = "back recent" => "open" \notin op.moved
    /\ op.step \in Committing => op.result = "Success"
    /\ op.step \notin {"again", "keep recent", "keep open"}
    /\ Back => faults = 1
    /\ Undone /\ "cache" \in op.moved => faults = 1
    /\ faults = 0 => NoneTorn

CacheInv ==
    /\ op.step \in Before => CacheAt(op.from) \/ CutOff
    /\ op.step \in Moving \cup Committing => ~Exists(From("cache"))
    /\ op.step \in Moving => CacheMoved \/ faults = 1
    /\ Back \/ Undone => CacheMoved
    /\ op.step = "idle" =>
          (op.result = "none" /\ CutOff) \/ \E name \in Names : Book(name) /\ CacheAt(name)

OpenInv ==
    /\ openMem = openCard \/ (Back /\ "open" \in op.moved)
    /\ op.step \in Before \cup Moving => (op.open <=> openMem = op.from)

RefsInv ==
    /\ op.step \in Before => RefsAt(op.from) \/ CutOff
    /\ op.step \in {"move book", "move recent"} => RefsAt(op.from) \/ faults = 1
    /\ op.step = "move open" => recent # op.from /\ (openMem # op.to \/ faults = 1)
    /\ op.step \in Committing => RefsAt(op.to)
    /\ Back =>
          /\ recent # (IF "recent" \in op.moved THEN op.from ELSE op.to)
          /\ "open" \notin op.moved => openMem # op.to
    /\ Undone => RefsAt(op.from)
    /\ op.step = "idle" =>
          (op.result = "none" /\ CutOff) \/ \E name \in Names : Book(name) /\ RefsAt(name)

OneInv == FreeInv /\ (faults < 2 => StageInv /\ CacheInv /\ OpenInv /\ RefsInv)

LEMMA InitOne == Init => OneInv
<1> SUFFICES ASSUME Init PROVE OneInv
  OBVIOUS
<1>1. PICK mine \in SUBSET {"cache", "marks", "clips"},
           theirs \in SUBSET {"cache", "marks", "clips", "clips.old"} :
          files = [path \in Paths |->
                IF path \in ({"book"} \cup mine) \X {NameA} THEN {"mine"}
                ELSE IF path \in theirs \X {NameB} THEN {"theirs"} ELSE Absent]
  BY DEF Init
<1>2. {"mine"} \in Docs /\ {"theirs"} \in Docs /\ {"mine"} # {"theirs"}
  BY DocsAssumption DEF DocsAssumption
<1>3. /\ op.step = "idle" /\ op.from = NameA /\ op.to = NameB /\ op.moved = {}
      /\ op.result = "none" /\ openMem = openCard
      /\ recent \in {None, NameA} /\ openMem \in {None, NameA}
  BY DEF Init, Idle
<1>4. Book(NameA) /\ RefsAt(NameA) /\ NameA \in Names
  <2>1. files[<<"book", NameA>>] = {"mine"}
    BY <1>1 DEF Kinds, Names
  <2>2. QED
    BY <1>2, <1>3, <2>1 DEF Book, Exists, Names, RefsAt
<1>5. CacheAt(NameA)
  <2>1. <<"cache", NameB>> \in Paths /\ Names \ {NameA} = {NameB}
    BY DEF Kinds, Names
  <2>2. files[<<"cache", NameB>>] \in {{"theirs"}, Absent}
    BY <1>1, <2>1
  <2>3. QED
    BY <1>2, <2>1, <2>2 DEF CacheAt
<1>6. NoneTorn
  BY <1>1, <1>2 DEF NoneTorn
<1>7. ~Back /\ ~Undone
  BY <1>3 DEF Back, Undone, Undoing
<1>8. QED
  BY <1>3, <1>4, <1>5, <1>6, <1>7 DEF OneInv, FreeInv, StageInv, CacheInv, OpenInv, RefsInv,
     Before, MarkSteps, ClipSteps, Moving, Committing

-----------------------------------------------------------------------------
(* The steps of the bookmarks and clippings.                               *)

\* The files of the bookmarks and clippings.
MetaFiles ==
    {"marks", "marks.bak", "clips", "clips.bak", "clips.tmp", "clips.old"} \X Names

\* A step that has no failure, and one that has.
Steady == Touches(MetaFiles) /\ faults' = faults /\ (AllWhole => AllWhole')
Harmed == Touches(MetaFiles) /\ faults' = faults + 1

LEMMA MetaPaths ==
    ASSUME op \in Ops
    PROVE  /\ MetaFiles \subseteq Paths
           /\ \A kind \in {"marks", "clips", "clips.tmp", "clips.old"} :
                 To(kind) \in MetaFiles /\ From(kind) \in MetaFiles
           /\ \A kind \in Migrations : Parked(kind) \in MetaFiles
  BY DEF MetaFiles, Kinds, To, From, Parked, Ops, Migrations

LEMMA MetaSteps ==
    ASSUME CardType, NEW path \in MetaFiles, NEW from \in MetaFiles
    PROVE  /\ Untouched \/ Cleared(path) \/ Renamed(from, path) => Steady
           /\ Fails \/ ClearFails(path) => Harmed
           /\ MayRemove(path) \/ RenameFails(from, path) => Steady \/ Harmed
           /\ RenameFails(from, path) /\ Movable(from, path) => Harmed
           /\ \A doc \in Docs : Written(path, doc) => Steady
           /\ Opened(path) => /\ Touches(MetaFiles) /\ faults' = faults
                              /\ \A other \in Paths \ {path} : files'[other] = files[other]
<1> USE DEF Steady, Harmed
<1>1. path \in Paths /\ from \in Paths
  BY DEF MetaFiles, Kinds
<1>2. \A paths \in {{}, {path}, {from, path}} : Touches(paths) => Touches(MetaFiles)
  BY DEF Touches
<1>3. Untouched => Steady
  BY <1>2, CardSteps DEF Untouched, AllWhole
<1>4. Cleared(path) => Steady
  <2>1. Cleared(path) => Touches({path}) /\ files'[path] = Absent
    BY <1>1, Removals
  <2>2. Cleared(path) => faults' = faults
    BY DEF Cleared, Removed, Untouched, Unharmed
  <2>3. QED
    BY <1>2, <2>1, <2>2 DEF AllWhole, Touches
<1>5. Renamed(from, path) => Steady
  <2>1. Renamed(from, path) => Touches({from, path}) /\ files'[from] = Absent
                               /\ files'[path] = files[from]
    BY <1>1, Renames
  <2>2. Renamed(from, path) => faults' = faults
    BY DEF Renamed, Unharmed
  <2>3. QED
    BY <1>1, <1>2, <2>1, <2>2 DEF AllWhole, Touches
<1>6. Fails => Harmed
  BY <1>2, CardSteps DEF Fails, Fault
<1>7. \A doc \in Docs : Written(path, doc) => Steady
  <2> SUFFICES ASSUME NEW doc \in Docs, Written(path, doc) PROVE Steady
    OBVIOUS
  <2>1. Touches({path}) /\ files'[path] = doc /\ faults' = faults
    BY <1>1, Writes DEF Written, Unharmed
  <2>2. QED
    BY <1>2, <2>1 DEF AllWhole, Touches
<1>8. Opened(path) => /\ Touches(MetaFiles) /\ faults' = faults
                      /\ \A other \in Paths \ {path} : files'[other] = files[other]
  BY <1>1, <1>2, Writes DEF Opened, Unharmed, Touches
<1>9. QED
  BY <1>3, <1>4, <1>5, <1>6, <1>7, <1>8 DEF ClearFails, MayRemove, RenameFails

\* The rename goes on: what has moved and what refers to the book stay as they are.
SameRename ==
    /\ op' \in Ops /\ op'.from = op.from /\ op'.to = op.to
    /\ op'.moved = op.moved /\ op'.open = op.open /\ op'.result = op.result
    /\ UNCHANGED refs

LEMMA Continues ==
    ASSUME op \in Ops, UNCHANGED refs, NEW step \in Steps, NEW active \in SUBSET Migrations,
           NEW parked \in SUBSET Migrations
    PROVE  /\ Goto(step) => SameRename /\ op'.step = step
           /\ op' = [op EXCEPT !.step = step] => SameRename /\ op'.step = step
           /\ op' = [op EXCEPT !.step = step, !.active = active] =>
                 SameRename /\ op'.step = step
           /\ op' = [op EXCEPT !.step = step, !.parked = parked] =>
                 SameRename /\ op'.step = step
           /\ op' = [op EXCEPT !.step = step, !.active = active, !.parked = parked] =>
                 SameRename /\ op'.step = step
<1>1. op' = [op EXCEPT !.step = step] => SameRename /\ op'.step = step
  BY Going DEF On, SameRename
<1>2. op' = [op EXCEPT !.step = step, !.active = active] => SameRename /\ op'.step = step
  BY DEF SameRename, Ops
<1>3. op' = [op EXCEPT !.step = step, !.parked = parked] => SameRename /\ op'.step = step
  BY DEF SameRename, Ops
<1>4. op' = [op EXCEPT !.step = step, !.active = active, !.parked = parked] =>
          SameRename /\ op'.step = step
  BY DEF SameRename, Ops
<1>5. QED
  BY <1>1, <1>2, <1>3, <1>4 DEF Goto

\* What every state of a rename can rely on.
LEMMA Known ==
    ASSUME IInv
    PROVE  /\ op \in Ops /\ CardType /\ RefsType /\ faults \in Nat
           /\ op.from # op.to /\ {op.from, op.to} = Names
           /\ op.from \in Names /\ op.to \in Names /\ None \notin Names
           /\ <<"cache", op.from>> \in Paths /\ <<"cache", op.to>> \in Paths
           /\ <<"book", op.from>> \in Paths /\ <<"book", op.to>> \in Paths
           /\ op.moved \subseteq Moved
  BY DEF IInv, TypeOK, CardType, Ops, RefsType, BookInv, Names, Kinds

LEMMA CachesStay ==
    ASSUME IInv, Touches(MetaFiles)
    PROVE  \A kind \in {"cache", "book"}, name \in Names :
              files'[<<kind, name>>] = files[<<kind, name>>]
<1> SUFFICES ASSUME NEW kind \in {"cache", "book"}, NEW name \in Names
             PROVE  <<kind, name>> \in Paths \ MetaFiles
  BY DEF Touches
<1> QED
  BY DEF Kinds, MetaFiles

\* The parts of the invariant that a step of the bookmarks or clippings leaves alone.
LEMMA SameParts ==
    ASSUME IInv, SameRename, Touches(MetaFiles)
    PROVE  /\ \A name \in Names : (RefsAt(name)' <=> RefsAt(name))
           /\ \A name \in Names : (CacheAt(name)' <=> CacheAt(name))
           /\ \A name \in Names : (Book(name)' <=> Book(name))
           /\ CacheMoved' <=> CacheMoved
           /\ RefsAt(op.from)' <=> RefsAt(op.from)
           /\ CacheAt(op.from)' <=> CacheAt(op.from)
           /\ \A name \in Names : Exists(<<"cache", name>>)' <=> Exists(<<"cache", name>>)
           /\ recent' = recent /\ openMem' = openMem /\ openCard' = openCard
<1>1. \A kind \in {"cache", "book"}, name \in Names :
          files'[<<kind, name>>] = files[<<kind, name>>]
  BY CachesStay
<1>2. op.from \in Names /\ op.to \in Names /\ op'.from = op.from /\ op'.to = op.to
      /\ op'.moved = op.moved
  BY Known DEF SameRename
<1>3. recent' = recent /\ openMem' = openMem /\ openCard' = openCard
  BY DEF SameRename, refs
<1>4. \A name : RefsAt(name)' <=> RefsAt(name)
  BY <1>3 DEF RefsAt
<1>5. \A name \in Names : (CacheAt(name)' <=> CacheAt(name))
  BY <1>1 DEF CacheAt
<1>6. CacheAt(op.from)' <=> CacheAt(op.from)
  BY <1>1, <1>2 DEF CacheAt
<1>7. /\ \A name \in Names : (Book(name)' <=> Book(name))
      /\ \A name \in Names : Exists(<<"cache", name>>)' <=> Exists(<<"cache", name>>)
  BY <1>1 DEF Book, Exists
<1>8. Exists(From("cache"))' <=> Exists(From("cache"))
  BY <1>1, <1>2 DEF Exists, From
<1>9. Exists(To("cache"))' <=> Exists(To("cache"))
  BY <1>1, <1>2 DEF Exists, To
<1>10. CacheMoved' <=> CacheMoved
  BY <1>2, <1>6, <1>8, <1>9 DEF CacheMoved
<1>11. RefsAt(op.from)' <=> RefsAt(op.from)
  BY <1>2, <1>3 DEF RefsAt
<1>12. QED
  BY <1>3, <1>4, <1>5, <1>6, <1>7, <1>10, <1>11

\* What a step of the preparation does: it goes on, or gives up because of a fault or
\* because a file that it reads is torn.
Prepares ==
    /\ SameRename /\ Touches(MetaFiles) /\ FreeInv'
    /\ \/ op'.step \in Before /\ faults' = faults /\ (NoneTorn => NoneTorn')
       \/ op'.step \in Before /\ faults' = faults + 1
       \/ op'.step \in Undoing /\ faults' = faults + 1
       \/ op'.step \in Undoing /\ faults' = faults /\ ~NoneTorn

LEMMA TornMeansWhole ==
    /\ NoneTorn /\ op.step \notin {"write marks", "write clips"} => AllWhole
    /\ AllWhole => NoneTorn
  BY DEF NoneTorn, AllWhole

LEMMA StepSets ==
    /\ Before \cap Undoing = {} /\ Before \cup Undoing \subseteq Steps
    /\ (Before \cup Undoing) \cap (Moving \cup Committing \cup {"idle", "back open",
           "back recent", "again", "keep recent", "keep open"}) = {}
  BY DEF Before, MarkSteps, ClipSteps, Undoing, Moving, Committing, Steps

LEMMA PreparesOne ==
    ASSUME IInv, OneInv, op.step \in MarkSteps \cup ClipSteps, Prepares
    PROVE  OneInv'
<1>1. "book" \notin op.moved /\ op.step \in Before /\ op'.moved = op.moved
      /\ op'.open = op.open
  BY Ready DEF Before, MarkSteps, ClipSteps, Undoing, Prepares, SameRename
<1>2. FreeInv'
  BY DEF Prepares
<1>3. SUFFICES ASSUME faults' < 2
               PROVE  StageInv' /\ CacheInv' /\ OpenInv' /\ RefsInv'
  BY <1>2 DEF OneInv
<1>4. faults \in Nat /\ faults < 2 /\ faults' \in {faults, faults + 1}
  BY <1>3, Known DEF Prepares
<1>5. StageInv /\ CacheInv /\ OpenInv /\ RefsInv
  BY <1>4 DEF OneInv
<1>6. op.moved = {} /\ (CacheAt(op.from) \/ CutOff) /\ (RefsAt(op.from) \/ CutOff)
      /\ openMem = openCard /\ (op.open <=> openMem = op.from)
      /\ (faults = 0 => NoneTorn)
  BY <1>1, <1>5, StepSets DEF StageInv, CacheInv, OpenInv, RefsInv, Back, Undoing
<1>7. /\ CacheMoved' <=> CacheMoved
      /\ RefsAt(op.from)' <=> RefsAt(op.from)
      /\ CacheAt(op.from)' <=> CacheAt(op.from)
      /\ \A name \in Names : Exists(<<"cache", name>>)' <=> Exists(<<"cache", name>>)
      /\ openMem' = openMem /\ openCard' = openCard /\ op'.from = op.from
  BY SameParts DEF Prepares, SameRename
<1>8. ~Back'
  BY <1>1, StepSets DEF Back, Prepares
<1>12. /\ op'.step \in Before /\ faults' = faults => (NoneTorn => NoneTorn')
       /\ op'.step \in Undoing /\ faults' = faults => ~NoneTorn
  <2>1. faults + 1 # faults
    BY <1>4
  <2>2. ~(op'.step \in Before /\ op'.step \in Undoing)
    BY StepSets
  <2>3. QED
    BY <2>1, <2>2 DEF Prepares
<1>9. CASE op'.step \in Before
  <2>1. ~Undone' /\ op'.step \notin Moving \cup Committing \cup
            {"idle", "back open", "back recent", "again", "keep recent", "keep open"}
    BY <1>9, StepSets DEF Undone
  <2>2. CutOff => faults' = faults
    BY <1>3, <1>4 DEF CutOff
  <2>3. CutOff => CutOff'
    BY <1>7, <1>9, <1>12, <2>2 DEF CutOff
  <2>4. faults' = 0 => NoneTorn'
    BY <1>4, <1>6, <1>9, <1>12
  <2>5. StageInv'
    BY <1>1, <1>6, <1>8, <2>1, <2>4 DEF StageInv, Moving
  <2>6. CacheInv'
    BY <1>6, <1>7, <1>8, <2>1, <2>3 DEF CacheInv
  <2>7. OpenInv' /\ RefsInv'
    BY <1>1, <1>6, <1>7, <1>8, <2>1, <2>3 DEF OpenInv, RefsInv, Moving
  <2>8. QED
    BY <2>5, <2>6, <2>7
<1>10. CASE op'.step \in Undoing
  <2>1. op'.step \notin Before \cup Moving \cup Committing \cup
            {"idle", "back open", "back recent", "again", "keep recent", "keep open"}
    BY <1>10, StepSets
  <2>2. ~CutOff
    <3>1. CASE faults' = faults + 1
      BY <1>3, <1>4, <3>1 DEF CutOff
    <3>2. CASE ~NoneTorn
      BY <3>2 DEF CutOff
    <3>3. QED
      BY <1>4, <1>10, <3>1, <3>2, StepSets DEF Prepares
  <2>3. faults' # 0
    BY <1>4, <1>6, <1>10, <1>12
  <2>4. CacheMoved
    BY <1>6, <2>2 DEF CacheMoved
  <2>5. StageInv'
    BY <1>1, <1>6, <1>8, <2>1, <2>3 DEF StageInv, Moving
  <2>6. CacheInv'
    BY <1>7, <2>1, <2>4 DEF CacheInv
  <2>7. OpenInv' /\ RefsInv'
    BY <1>6, <1>7, <1>8, <2>1, <2>2 DEF OpenInv, RefsInv, Moving
  <2>8. QED
    BY <2>5, <2>6, <2>7
<1>11. QED
  BY <1>9, <1>10 DEF Prepares

\* The two usual outcomes of a step of the preparation.
LEMMA Usual ==
    ASSUME SameRename, op.step \notin {"write marks", "write clips"}, FreeInv',
           \/ Steady /\ op'.step \in Before
           \/ Harmed /\ op'.step \in Undoing
    PROVE  Prepares
<1>1. Steady => (NoneTorn => NoneTorn')
  BY TornMeansWhole DEF Steady, AllWhole, NoneTorn
<1>2. QED
  BY <1>1 DEF Prepares, Steady, Harmed

\* The next steps of which FreeInv says nothing.
LEMMA NothingToKeepFree ==
    ASSUME op'.step \notin {"park marks", "park clips", "open clips", "write clips",
                            "publish clips"}
    PROVE  FreeInv'
  BY DEF FreeInv

\* What every step of the preparation starts from.
LEMMA PrepareKnows ==
    ASSUME IInv, OneInv, op.step \in MarkSteps \cup ClipSteps
    PROVE  /\ op \in Ops /\ CardType /\ op.active \in SUBSET Migrations
           /\ op.parked \in SUBSET Migrations
           /\ op.step \in Before /\ FreeInv
           /\ \A kind \in {"marks", "clips", "clips.tmp", "clips.old"} :
                 To(kind) \in MetaFiles /\ From(kind) \in MetaFiles
           /\ \A kind \in Migrations : Parked(kind) \in MetaFiles
           /\ MetaFiles \subseteq Paths
  BY Known, MetaPaths DEF Before, OneInv, Ops

LEMMA RecoverPrepares ==
    ASSUME IInv, OneInv, NEW kind \in Migrations, NEW next \in {"read marks", "read clips"},
           RecoverParked(kind, next)
    PROVE  Prepares
<1>1. op.step \in MarkSteps \cup ClipSteps /\ op.step \notin {"write marks", "write clips"}
      /\ UNCHANGED refs
  BY DEF RecoverParked, Migrations, MarkSteps, ClipSteps, CardOnly
<1>2. op \in Ops /\ CardType /\ To(kind) \in MetaFiles /\ Parked(kind) \in MetaFiles
  BY <1>1, PrepareKnows DEF Migrations
<1>3. {next, "recover"} \subseteq Steps /\ next \in Before /\ "recover" \in Undoing
  BY DEF Steps, Before, MarkSteps, ClipSteps, Undoing
<1>4. (Steady /\ Goto(next)) \/ (Harmed /\ Goto("recover"))
  BY <1>2, MetaSteps DEF RecoverParked, Move, Movable
<1>5. CASE Steady /\ Goto(next)
  BY <1>1, <1>2, <1>3, <1>5, Continues, NothingToKeepFree, Usual
<1>6. CASE Harmed /\ Goto("recover")
  BY <1>1, <1>2, <1>3, <1>6, Continues, NothingToKeepFree, Usual
<1>7. QED
  BY <1>4, <1>5, <1>6

LEMMA ReadMarksPrepares == IInv /\ OneInv /\ ReadMarks => Prepares
<1> SUFFICES ASSUME IInv, OneInv, ReadMarks PROVE Prepares
  OBVIOUS
<1>1. op.step = "read marks" /\ op.step \in MarkSteps \cup ClipSteps /\ UNCHANGED refs
      /\ Untouched
  BY DEF ReadMarks, MarkSteps, CardOnly
<1>2. op \in Ops /\ CardType /\ From("marks") \in MetaFiles /\ To("marks") \in MetaFiles
      /\ MetaFiles \subseteq Paths
  BY <1>1, PrepareKnows
<1>3. Steady
  BY <1>1, <1>2, MetaSteps
<1>4. {"clips", "recover", "clean marks"} \subseteq Steps /\ {"marks"} \in SUBSET Migrations
      /\ "clips" \in Before /\ "clean marks" \in Before /\ "recover" \in Undoing
  BY DEF Steps, Migrations, Before, MarkSteps, ClipSteps, Undoing
<1>5. CASE op' = [op EXCEPT !.step = "clips"]
  BY <1>1, <1>2, <1>3, <1>4, <1>5, Continues, NothingToKeepFree, Usual
<1>6. CASE op' = [op EXCEPT !.step = "clean marks", !.active = {"marks"}]
  BY <1>1, <1>2, <1>3, <1>4, <1>6, Continues, NothingToKeepFree, Usual
<1>7. CASE /\ Torn \in {files[From("marks")], files[To("marks")]}
           /\ op' = [op EXCEPT !.step = "recover"]
  <2>1. SameRename /\ op'.step = "recover"
    BY <1>1, <1>2, <1>4, <1>7, Continues
  <2>2. ~NoneTorn
    BY <1>1, <1>2, <1>7 DEF NoneTorn
  <2>3. QED
    BY <1>3, <1>4, <2>1, <2>2, NothingToKeepFree DEF Prepares, Steady
<1>8. QED
  BY <1>5, <1>6, <1>7 DEF ReadMarks

LEMMA CleanMarksPrepares == IInv /\ OneInv /\ CleanMarks => Prepares
<1> SUFFICES ASSUME IInv, OneInv, CleanMarks PROVE Prepares
  OBVIOUS
<1>1. op.step = "clean marks" /\ op.step \in MarkSteps \cup ClipSteps /\ UNCHANGED refs
  BY DEF CleanMarks, MarkSteps, CardOnly
<1>2. op \in Ops /\ CardType /\ Parked("marks") \in MetaFiles /\ To("marks") \in MetaFiles
      /\ MetaFiles \subseteq Paths
  BY <1>1, PrepareKnows DEF Migrations
<1>3. {"park marks", "open marks", "abandon marks"} \subseteq Steps
      /\ "park marks" \in Before /\ "open marks" \in Before /\ "abandon marks" \in Undoing
  BY DEF Steps, Before, MarkSteps, ClipSteps, Undoing
<1>4. CASE Exists(To("marks")) /\ Cleared(Parked("marks")) /\ Goto("park marks")
  <2>1. Steady /\ SameRename /\ op'.step = "park marks"
    BY <1>1, <1>2, <1>3, <1>4, MetaSteps, Continues
  <2>2. Touches({Parked("marks")}) /\ files'[Parked("marks")] = Absent
    BY <1>2, <1>4, Removals
  <2>3. Parked("marks")' = Parked("marks") /\ To("marks")' = To("marks")
        /\ To("marks") # Parked("marks")
    BY <2>1 DEF SameRename, Parked, To
  <2>4. FreeInv'
    BY <1>2, <1>4, <2>1, <2>2, <2>3 DEF FreeInv, Exists, Touches
  <2>5. QED
    BY <1>1, <1>3, <2>1, <2>4, Usual
<1>5. CASE Untouched /\ Goto("open marks")
  BY <1>1, <1>2, <1>3, <1>5, MetaSteps, Continues, NothingToKeepFree, Usual
<1>6. CASE ClearFails(Parked("marks")) /\ Goto("abandon marks")
  BY <1>1, <1>2, <1>3, <1>6, MetaSteps, Continues, NothingToKeepFree, Usual
<1>7. QED
  BY <1>4, <1>5, <1>6 DEF CleanMarks, Clear

LEMMA ParkMarksPrepares == IInv /\ OneInv /\ ParkMarks => Prepares
<1> SUFFICES ASSUME IInv, OneInv, ParkMarks PROVE Prepares
  OBVIOUS
<1>1. op.step = "park marks" /\ op.step \in MarkSteps \cup ClipSteps /\ UNCHANGED refs
  BY DEF ParkMarks, MarkSteps, CardOnly
<1>2. op \in Ops /\ CardType /\ Parked("marks") \in MetaFiles /\ To("marks") \in MetaFiles
      /\ FreeInv
  BY <1>1, PrepareKnows DEF Migrations
<1>3. {"open marks", "abandon marks"} \subseteq Steps /\ {"marks"} \in SUBSET Migrations
      /\ "open marks" \in Before /\ "abandon marks" \in Undoing
  BY DEF Steps, Migrations, Before, MarkSteps, Undoing
<1>4. Movable(To("marks"), Parked("marks"))
  BY <1>1, <1>2 DEF FreeInv, Movable
<1>5. CASE /\ Renamed(To("marks"), Parked("marks"))
           /\ op' = [op EXCEPT !.step = "open marks", !.parked = {"marks"}]
  BY <1>1, <1>2, <1>3, <1>5, MetaSteps, Continues, NothingToKeepFree, Usual
<1>6. CASE RenameFails(To("marks"), Parked("marks")) /\ Goto("abandon marks")
  BY <1>1, <1>2, <1>3, <1>4, <1>6, MetaSteps, Continues, NothingToKeepFree, Usual
<1>7. QED
  BY <1>5, <1>6 DEF ParkMarks, Move

LEMMA OpenMarksPrepares == IInv /\ OneInv /\ OpenMarks => Prepares
<1> SUFFICES ASSUME IInv, OneInv, OpenMarks PROVE Prepares
  OBVIOUS
<1>1. op.step = "open marks" /\ op.step \in MarkSteps \cup ClipSteps /\ UNCHANGED refs
  BY DEF OpenMarks, MarkSteps, CardOnly
<1>2. op \in Ops /\ CardType /\ To("marks") \in MetaFiles
  BY <1>1, PrepareKnows
<1>3. {"write marks", "abandon marks"} \subseteq Steps
      /\ "write marks" \in Before /\ "abandon marks" \in Undoing
  BY DEF Steps, Before, MarkSteps, Undoing
<1>4. CASE Fails /\ Goto("abandon marks")
  BY <1>1, <1>2, <1>3, <1>4, MetaSteps, Continues, NothingToKeepFree, Usual
<1>5. CASE Opened(To("marks")) /\ Goto("write marks")
  <2>1. SameRename /\ op'.step = "write marks"
    BY <1>1, <1>2, <1>3, <1>5, Continues
  <2>2. /\ Touches(MetaFiles) /\ faults' = faults
        /\ \A other \in Paths \ {To("marks")} : files'[other] = files[other]
    BY <1>2, <1>5, MetaSteps
  <2>3. To("marks")' = To("marks")
    BY <2>1 DEF SameRename, To
  <2>4. NoneTorn => NoneTorn'
    BY <1>1, <2>1, <2>2, <2>3 DEF NoneTorn
  <2>5. QED
    BY <1>3, <2>1, <2>2, <2>4, NothingToKeepFree DEF Prepares
<1>6. QED
  BY <1>4, <1>5 DEF OpenMarks

LEMMA WriteMarksPrepares == IInv /\ OneInv /\ WriteMarks => Prepares
<1> SUFFICES ASSUME IInv, OneInv, WriteMarks PROVE Prepares
  OBVIOUS
<1> DEFINE both == files[From("marks")] \cup
                   IF "marks" \in op.parked THEN files[Parked("marks")] ELSE {}
<1>1. op.step = "write marks" /\ op.step \in MarkSteps \cup ClipSteps /\ UNCHANGED refs
      /\ Goto("clips")
  BY DEF WriteMarks, MarkSteps
<1>2. op \in Ops /\ CardType /\ To("marks") \in MetaFiles /\ To("marks") \in Paths
  BY <1>1, PrepareKnows
<1>3. "clips" \in Steps /\ "clips" \in Before
  BY DEF Steps, Before, ClipSteps
<1>4. SameRename /\ op'.step = "clips" /\ FreeInv'
  BY <1>1, <1>2, <1>3, Continues, NothingToKeepFree
<1>5. CASE Fails
  BY <1>2, <1>3, <1>4, <1>5, MetaSteps DEF Prepares, Harmed
<1>6. CASE Written(To("marks"), both)
  <2>1. both \in Docs
    <3>1. files[From("marks")] \in Docs
          /\ ("marks" \in op.parked => files[Parked("marks")] \in Docs)
      BY <1>1 DEF IInv, CopyInv
    <3>2. QED
      BY <3>1, DocsAssumption DEF DocsAssumption
  <2> HIDE DEF both
  <2>2. Touches(MetaFiles) /\ faults' = faults
    BY <1>2, <1>6, <2>1, MetaSteps DEF Steady
  <2>3. Touches({To("marks")}) /\ files'[To("marks")] = both
    BY <1>2, <1>6, <2>1, Writes
  <2>4. NoneTorn => NoneTorn'
    BY <1>1, <2>1, <2>3 DEF NoneTorn, Touches
  <2>5. QED
    BY <1>3, <1>4, <2>2, <2>4 DEF Prepares
<1>7. QED
  BY <1>5, <1>6 DEF WriteMarks

LEMMA ReadClipsPrepares == IInv /\ OneInv /\ ReadClips => Prepares
<1> SUFFICES ASSUME IInv, OneInv, ReadClips PROVE Prepares
  OBVIOUS
<1>1. op.step = "read clips" /\ op.step \in MarkSteps \cup ClipSteps /\ UNCHANGED refs
      /\ Untouched
  BY DEF ReadClips, ClipSteps, CardOnly
<1>2. op \in Ops /\ CardType /\ From("clips") \in MetaFiles /\ MetaFiles \subseteq Paths
  BY <1>1, PrepareKnows
<1>3. Steady
  BY <1>1, <1>2, MetaSteps
<1>4. {"move cache", "recover", "settle clips"} \subseteq Steps
      /\ "move cache" \in Before /\ "settle clips" \in Before /\ "recover" \in Undoing
  BY DEF Steps, Before, ClipSteps, Undoing
<1>5. ASSUME NEW step \in {"move cache", "settle clips"}, Goto(step) PROVE Prepares
  BY <1>1, <1>2, <1>3, <1>4, <1>5, Continues, NothingToKeepFree, Usual
<1>6. CASE files[From("clips")] = Torn /\ Goto("recover")
  <2>1. SameRename /\ op'.step = "recover"
    BY <1>1, <1>2, <1>4, <1>6, Continues
  <2>2. ~NoneTorn
    BY <1>1, <1>2, <1>6 DEF NoneTorn
  <2>3. QED
    BY <1>3, <1>4, <2>1, <2>2, NothingToKeepFree DEF Prepares, Steady
<1>7. QED
  BY <1>5, <1>6 DEF ReadClips

LEMMA SettleClipsPrepares == IInv /\ OneInv /\ SettleClips => Prepares
<1> SUFFICES ASSUME IInv, OneInv, SettleClips PROVE Prepares
  OBVIOUS
<1>1. op.step = "settle clips" /\ op.step \in MarkSteps \cup ClipSteps /\ UNCHANGED refs
  BY DEF SettleClips, ClipSteps, CardOnly
<1>2. op \in Ops /\ CardType /\ To("clips") \in MetaFiles /\ To("clips.old") \in MetaFiles
  BY <1>1, PrepareKnows
<1>3. {"clean clips", "recover"} \subseteq Steps
      /\ "clean clips" \in Before /\ "recover" \in Undoing
  BY DEF Steps, Before, ClipSteps, Undoing
<1>4. (Steady /\ Goto("clean clips")) \/ (Harmed /\ Goto("recover"))
  BY <1>2, MetaSteps DEF SettleClips, Clear, Move, Movable
<1>5. CASE Steady /\ Goto("clean clips")
  BY <1>1, <1>2, <1>3, <1>5, Continues, NothingToKeepFree, Usual
<1>6. CASE Harmed /\ Goto("recover")
  BY <1>1, <1>2, <1>3, <1>6, Continues, NothingToKeepFree, Usual
<1>7. QED
  BY <1>4, <1>5, <1>6

LEMMA CleanClipsPrepares == IInv /\ OneInv /\ CleanClips => Prepares
<1> SUFFICES ASSUME IInv, OneInv, CleanClips PROVE Prepares
  OBVIOUS
<1>1. op.step = "clean clips" /\ op.step \in MarkSteps \cup ClipSteps /\ UNCHANGED refs
  BY DEF CleanClips, ClipSteps, CardOnly
<1>2. op \in Ops /\ CardType /\ Parked("clips") \in MetaFiles /\ MetaFiles \subseteq Paths
  BY <1>1, PrepareKnows DEF Migrations
<1>3. {"park clips", "recover"} \subseteq Steps
      /\ "park clips" \in Before /\ "recover" \in Undoing
  BY DEF Steps, Before, ClipSteps, Undoing
<1>4. CASE Cleared(Parked("clips")) /\ Goto("park clips")
  <2>1. Steady /\ SameRename /\ op'.step = "park clips"
    BY <1>1, <1>2, <1>3, <1>4, MetaSteps, Continues
  <2>2. files'[Parked("clips")] = Absent
    BY <1>2, <1>4, Removals
  <2>3. FreeInv'
    BY <2>1, <2>2 DEF FreeInv, Exists, SameRename, Parked
  <2>4. QED
    BY <1>1, <1>3, <2>1, <2>3, Usual
<1>5. CASE ClearFails(Parked("clips")) /\ Goto("recover")
  BY <1>1, <1>2, <1>3, <1>5, MetaSteps, Continues, NothingToKeepFree, Usual
<1>6. QED
  BY <1>4, <1>5 DEF CleanClips, Clear

LEMMA ParkClipsPrepares == IInv /\ OneInv /\ ParkClips => Prepares
<1> SUFFICES ASSUME IInv, OneInv, ParkClips PROVE Prepares
  OBVIOUS
<1> DEFINE active == [op EXCEPT !.step = "open clips", !.active = @ \cup {"clips"}]
           parked == [active EXCEPT !.parked = @ \cup {"clips"}]
<1>1. op.step = "park clips" /\ op.step \in MarkSteps \cup ClipSteps /\ UNCHANGED refs
  BY DEF ParkClips, ClipSteps, CardOnly
<1>2. op \in Ops /\ CardType /\ Parked("clips") \in MetaFiles /\ To("clips") \in MetaFiles
      /\ FreeInv /\ MetaFiles \subseteq Paths
  BY <1>1, PrepareKnows DEF Migrations
<1>3. {"open clips", "recover"} \subseteq Steps
      /\ "open clips" \in Before /\ "recover" \in Undoing
      /\ op.active \cup {"clips"} \in SUBSET Migrations
      /\ op.parked \cup {"clips"} \in SUBSET Migrations
  BY <1>2 DEF Steps, Before, ClipSteps, Undoing, Ops, Migrations
<1>4. parked = [op EXCEPT !.step = "open clips", !.active = op.active \cup {"clips"},
                          !.parked = op.parked \cup {"clips"}]
      /\ active = [op EXCEPT !.step = "open clips", !.active = op.active \cup {"clips"}]
  BY <1>2 DEF Ops
<1>5. op' = parked \/ op' = active => SameRename /\ op'.step = "open clips"
  <2> HIDE DEF active, parked
  <2>1. QED
    BY <1>1, <1>2, <1>3, <1>4, Continues
<1>6. CASE Renamed(To("clips"), Parked("clips")) /\ op' = parked
  <2>1. Steady /\ files'[To("clips")] = Absent
    BY <1>2, <1>6, MetaSteps, Renames
  <2>2. FreeInv'
    BY <1>5, <1>6, <2>1 DEF FreeInv, Exists, SameRename, To
  <2>3. QED
    BY <1>1, <1>3, <1>5, <1>6, <2>1, <2>2, Usual
<1>7. CASE ~Exists(To("clips")) /\ Untouched /\ op' = active
  <2>1. Steady /\ files'[To("clips")] = Absent
    BY <1>2, <1>7, MetaSteps, CardSteps DEF Exists
  <2>2. FreeInv'
    BY <1>5, <1>7, <2>1 DEF FreeInv, Exists, SameRename, To
  <2>3. QED
    BY <1>1, <1>3, <1>5, <1>7, <2>1, <2>2, Usual
<1>8. CASE Exists(To("clips")) /\ RenameFails(To("clips"), Parked("clips")) /\ Goto("recover")
  <2>1. Harmed
    BY <1>1, <1>2, <1>8, MetaSteps DEF FreeInv, Movable
  <2>2. QED
    BY <1>1, <1>2, <1>3, <1>8, <2>1, Continues, NothingToKeepFree, Usual
<1>9. QED
  BY <1>6, <1>7, <1>8 DEF ParkClips, Move

\* The name for the clippings stays free while the temporary file is written.
LEMMA StaysFree ==
    ASSUME IInv, OneInv, op.step \in {"open clips", "write clips"}, SameRename,
           op'.step \in {"write clips", "publish clips"}, Touches({To("clips.tmp")})
    PROVE  FreeInv'
<1>1. op \in Ops /\ FreeInv /\ To("clips") \in MetaFiles /\ MetaFiles \subseteq Paths
  BY PrepareKnows DEF ClipSteps
<1>2. files'[To("clips")] = Absent
  BY <1>1 DEF FreeInv, Exists, Touches, To
<1>3. QED
  BY <1>2 DEF FreeInv, Exists, SameRename, To

LEMMA OpenClipsPrepares == IInv /\ OneInv /\ OpenClips => Prepares
<1> SUFFICES ASSUME IInv, OneInv, OpenClips PROVE Prepares
  OBVIOUS
<1>1. op.step = "open clips" /\ op.step \in MarkSteps \cup ClipSteps /\ UNCHANGED refs
  BY DEF OpenClips, ClipSteps, CardOnly
<1>2. op \in Ops /\ CardType /\ To("clips.tmp") \in MetaFiles /\ MetaFiles \subseteq Paths
  BY <1>1, PrepareKnows
<1>3. {"write clips", "abandon clips"} \subseteq Steps
      /\ "write clips" \in Before /\ "abandon clips" \in Undoing
  BY DEF Steps, Before, ClipSteps, Undoing
<1>4. CASE Fails /\ Goto("abandon clips")
  BY <1>1, <1>2, <1>3, <1>4, MetaSteps, Continues, NothingToKeepFree, Usual
<1>5. CASE Opened(To("clips.tmp")) /\ Goto("write clips")
  <2>1. SameRename /\ op'.step = "write clips"
    BY <1>1, <1>2, <1>3, <1>5, Continues
  <2>2. /\ Touches(MetaFiles) /\ faults' = faults
        /\ \A other \in Paths \ {To("clips.tmp")} : files'[other] = files[other]
    BY <1>2, <1>5, MetaSteps
  <2>3. FreeInv'
    BY <1>1, <1>2, <1>5, <2>1, Writes, StaysFree
  <2>4. To("clips.tmp")' = To("clips.tmp")
    BY <2>1 DEF SameRename, To
  <2>5. NoneTorn => NoneTorn'
    BY <1>1, <2>1, <2>2, <2>4 DEF NoneTorn
  <2>6. QED
    BY <1>3, <2>1, <2>2, <2>3, <2>5 DEF Prepares
<1>6. QED
  BY <1>4, <1>5 DEF OpenClips

LEMMA WriteClipsPrepares == IInv /\ OneInv /\ WriteClips => Prepares
<1> SUFFICES ASSUME IInv, OneInv, WriteClips PROVE Prepares
  OBVIOUS
<1>1. op.step = "write clips" /\ op.step \in MarkSteps \cup ClipSteps /\ UNCHANGED refs
  BY DEF WriteClips, ClipSteps, CardOnly
<1>2. op \in Ops /\ CardType /\ To("clips.tmp") \in MetaFiles /\ MetaFiles \subseteq Paths
  BY <1>1, PrepareKnows
<1>3. {"publish clips", "discard clips"} \subseteq Steps
      /\ "publish clips" \in Before /\ "discard clips" \in Undoing
  BY DEF Steps, Before, ClipSteps, Undoing
<1>4. CASE Fails /\ Goto("discard clips")
  <2>1. Harmed /\ SameRename /\ op'.step = "discard clips"
    BY <1>1, <1>2, <1>3, <1>4, MetaSteps, Continues
  <2>2. QED
    BY <1>3, <2>1, NothingToKeepFree DEF Prepares, Harmed
<1>5. CASE Written(To("clips.tmp"), files[From("clips")]) /\ Goto("publish clips")
  <2>1. SameRename /\ op'.step = "publish clips"
    BY <1>1, <1>2, <1>3, <1>5, Continues
  <2>2. files[From("clips")] \in Docs
    BY <1>1 DEF IInv, CopyInv
  <2>3. Touches(MetaFiles) /\ faults' = faults
    BY <1>2, <1>5, <2>2, MetaSteps DEF Steady
  <2>4. Touches({To("clips.tmp")}) /\ files'[To("clips.tmp")] = files[From("clips")]
    BY <1>2, <1>5, <2>2, Writes
  <2>5. FreeInv'
    BY <1>1, <2>1, <2>4, StaysFree
  <2>6. NoneTorn => NoneTorn'
    BY <1>1, <2>2, <2>4 DEF NoneTorn, Touches
  <2>7. QED
    BY <1>3, <2>1, <2>3, <2>5, <2>6 DEF Prepares
<1>6. QED
  BY <1>4, <1>5 DEF WriteClips

LEMMA PublishClipsPrepares == IInv /\ OneInv /\ PublishClips => Prepares
<1> SUFFICES ASSUME IInv, OneInv, PublishClips PROVE Prepares
  OBVIOUS
<1>1. op.step = "publish clips" /\ op.step \in MarkSteps \cup ClipSteps /\ UNCHANGED refs
  BY DEF PublishClips, ClipSteps, CardOnly
<1>2. op \in Ops /\ CardType /\ To("clips") \in MetaFiles /\ To("clips.tmp") \in MetaFiles
      /\ FreeInv
  BY <1>1, PrepareKnows
<1>3. {"move cache", "discard clips"} \subseteq Steps
      /\ "move cache" \in Before /\ "discard clips" \in Undoing
  BY DEF Steps, Before, Undoing
<1>4. Movable(To("clips.tmp"), To("clips"))
  <2>1. files[To("clips.tmp")] \in Docs
    BY <1>1 DEF IInv, CopyInv
  <2>2. QED
    BY <1>1, <1>2, <2>1 DEF FreeInv, Movable, Exists
<1>5. CASE Renamed(To("clips.tmp"), To("clips")) /\ Goto("move cache")
  BY <1>1, <1>2, <1>3, <1>5, MetaSteps, Continues, NothingToKeepFree, Usual
<1>6. CASE RenameFails(To("clips.tmp"), To("clips")) /\ Goto("discard clips")
  BY <1>1, <1>2, <1>3, <1>4, <1>6, MetaSteps, Continues, NothingToKeepFree, Usual
<1>7. QED
  BY <1>5, <1>6 DEF PublishClips, Move

LEMMA PrepareOne == IInv /\ OneInv /\ (BeginMarks \/ BeginClips) /\ ~DiscardClips => OneInv'
<1> SUFFICES ASSUME IInv, OneInv, BeginMarks \/ BeginClips, ~DiscardClips PROVE OneInv'
  OBVIOUS
<1>1. Prepares
  BY RecoverPrepares, ReadMarksPrepares, CleanMarksPrepares, ParkMarksPrepares,
     OpenMarksPrepares, WriteMarksPrepares, ReadClipsPrepares, SettleClipsPrepares,
     CleanClipsPrepares, ParkClipsPrepares, OpenClipsPrepares, WriteClipsPrepares,
     PublishClipsPrepares DEF BeginMarks, BeginClips, Migrations
<1>2. op.step \in MarkSteps \cup ClipSteps
  BY DEF BeginMarks, BeginClips, MarkSteps, ClipSteps, RecoverParked, ReadMarks, CleanMarks,
     ParkMarks, OpenMarks, WriteMarks, ReadClips, SettleClips, CleanClips, ParkClips,
     OpenClips, WriteClips, PublishClips
<1>3. QED
  BY <1>1, <1>2, PreparesOne

-----------------------------------------------------------------------------
(* The way back of what was prepared.                                      *)

LEMMA UndoesOne ==
    ASSUME IInv, OneInv, Undone, SameRename, op'.step \in Undoing, Steady \/ Harmed
    PROVE  OneInv'
<1>1. "book" \notin op.moved /\ op.step \in Undoing /\ op'.moved = op.moved
  BY DEF Undone, SameRename
<1>2. op'.step \notin Before \cup Moving \cup Committing \cup
          {"idle", "back open", "back recent", "again", "keep recent", "keep open"}
  BY StepSets
<1>3. FreeInv'
  BY <1>2, NothingToKeepFree DEF Before, MarkSteps, ClipSteps
<1>4. SUFFICES ASSUME faults' < 2
               PROVE  StageInv' /\ CacheInv' /\ OpenInv' /\ RefsInv'
  BY <1>3 DEF OneInv
<1>5. faults \in Nat /\ faults < 2 /\ faults' \in {faults, faults + 1}
  BY <1>4, Known DEF Steady, Harmed
<1>6. StageInv /\ CacheInv /\ OpenInv /\ RefsInv
  BY <1>5 DEF OneInv
<1>7. ~Back /\ ~Back' /\ Undone'
  BY <1>1, <1>2, StepSets DEF Back, Undone, Undoing
<1>8. CacheMoved /\ RefsAt(op.from) /\ openMem = openCard
      /\ op.moved \cap {"recent", "open"} = {} /\ (faults = 0 => NoneTorn)
      /\ ("cache" \in op.moved => faults = 1)
  BY <1>6, <1>7 DEF StageInv, CacheInv, OpenInv, RefsInv
<1>9. /\ CacheMoved' <=> CacheMoved
      /\ RefsAt(op.from)' <=> RefsAt(op.from)
      /\ openMem' = openMem /\ openCard' = openCard
  BY SameParts DEF Steady, Harmed
<1>10. faults' = 0 => NoneTorn'
  <2>1. AllWhole' => NoneTorn'
    BY DEF AllWhole, NoneTorn
  <2>2. op.step \notin {"write marks", "write clips"}
    BY <1>1, StepSets DEF Before, MarkSteps, ClipSteps
  <2>3. faults' = 0 => faults = 0 /\ faults' # faults + 1
    BY <1>5
  <2>4. QED
    BY <1>8, <2>1, <2>2, <2>3, TornMeansWhole DEF Steady, Harmed
<1>11. "cache" \in op.moved => faults' = 1
  BY <1>4, <1>5, <1>8
<1>12. StageInv'
  BY <1>1, <1>2, <1>7, <1>8, <1>10, <1>11 DEF StageInv, Moving
<1>13. CacheInv'
  BY <1>2, <1>7, <1>8, <1>9 DEF CacheInv
<1>14. OpenInv' /\ RefsInv'
  BY <1>2, <1>7, <1>8, <1>9 DEF OpenInv, RefsInv, Moving
<1>15. QED
  BY <1>12, <1>13, <1>14

LEMMA DropOne ==
    ASSUME IInv, OneInv, NEW kind \in Migrations, NEW here \in Undoing \ {"recover"},
           NEW restore \in Undoing, NEW next \in Undoing, Drop(kind, here, restore, next)
    PROVE  OneInv'
<1>1. op.step \in Undoing /\ op.step # "recover" /\ UNCHANGED refs
  BY DEF Drop, CardOnly
<1>2. op \in Ops /\ CardType /\ Undone
  BY <1>1, Ready DEF Undone
<1>3. To(kind) \in MetaFiles
  BY <1>2, MetaPaths DEF Migrations
<1>4. (Steady \/ Harmed) /\ (Goto(restore) \/ Goto(next))
  BY <1>2, <1>3, MetaSteps DEF Drop
<1>5. SameRename /\ op'.step \in Undoing
  BY <1>1, <1>2, <1>4, Continues, StepSets
<1>6. QED
  BY <1>2, <1>4, <1>5, UndoesOne

LEMMA RestoreOne ==
    ASSUME IInv, OneInv, NEW kind \in Migrations, NEW here \in Undoing \ {"recover"},
           NEW next \in Undoing, Restore(kind, here, next)
    PROVE  OneInv'
<1> DEFINE over == [op EXCEPT !.step = next, !.active = @ \ {kind}]
<1>1. op.step \in Undoing /\ op.step # "recover" /\ UNCHANGED refs
  BY DEF Restore, CardOnly
<1>2. op \in Ops /\ CardType /\ Undone
  BY <1>1, Ready DEF Undone
<1>3. To(kind) \in MetaFiles /\ Parked(kind) \in MetaFiles
  BY <1>2, MetaPaths DEF Migrations
<1>4. (Steady \/ Harmed) /\ (Goto(next) \/ op' = over)
  BY <1>2, <1>3, MetaSteps DEF Restore, Move
<1>5. SameRename /\ op'.step \in Undoing
  <2>1. op.active \ {kind} \in SUBSET Migrations /\ next \in Steps
    BY <1>2, StepSets DEF Ops
  <2>2. over = [op EXCEPT !.step = next, !.active = op.active \ {kind}]
    BY <1>2 DEF Ops
  <2> HIDE DEF over
  <2>3. QED
    BY <1>1, <1>2, <1>4, <2>1, <2>2, Continues
<1>6. QED
  BY <1>2, <1>4, <1>5, UndoesOne

LEMMA DiscardOne == IInv /\ OneInv /\ DiscardClips => OneInv'
<1> SUFFICES ASSUME IInv, OneInv, DiscardClips PROVE OneInv'
  OBVIOUS
<1>1. op.step \in Undoing /\ op.step # "recover" /\ UNCHANGED refs
      /\ Goto("abandon clips") /\ "abandon clips" \in Undoing
  BY DEF DiscardClips, CardOnly, Undoing
<1>2. op \in Ops /\ CardType /\ Undone
  BY <1>1, Ready DEF Undone
<1>3. To("clips.tmp") \in MetaFiles
  BY <1>2, MetaPaths
<1>4. Steady \/ Harmed
  BY <1>2, <1>3, MetaSteps DEF DiscardClips
<1>5. SameRename /\ op'.step \in Undoing
  BY <1>1, <1>2, Continues, StepSets
<1>6. QED
  BY <1>2, <1>4, <1>5, UndoesOne

LEMMA AbandonOne == IInv /\ OneInv /\ (Abandon \/ RollBackPrepared) => OneInv'
  BY DropOne, RestoreOne DEF Abandon, RollBackPrepared, Migrations, Undoing

\* What a step that moves files other than those of the metadata does.
LEMMA OtherSteps ==
    ASSUME CardType, NEW path \in Paths, NEW from \in Paths
    PROVE  /\ Untouched => files' = files /\ faults' = faults
           /\ Renamed(from, path) =>
                 /\ faults' = faults /\ (AllWhole => AllWhole')
                 /\ files'[from] = Absent /\ files'[path] = files[from] /\ Exists(from)
                 /\ \A other \in Paths \ {from, path} : files'[other] = files[other]
           /\ RenameFails(from, path) =>
                 /\ files' = files
                 /\ faults' = (IF Movable(from, path) THEN faults + 1 ELSE faults)
<1>1. Untouched => files' = files /\ faults' = faults
  BY DEF Untouched
<1>2. RenameFails(from, path) =>
          /\ files' = files
          /\ faults' = (IF Movable(from, path) THEN faults + 1 ELSE faults)
  BY DEF RenameFails, Untouched, Fails, Fault
<1>3. Renamed(from, path) =>
          /\ files'[from] = Absent /\ files'[path] = files[from] /\ Exists(from)
          /\ \A other \in Paths \ {from, path} : files'[other] = files[other]
  BY Renames DEF Touches
<1>4. Renamed(from, path) => faults' = faults /\ (AllWhole => AllWhole')
  BY <1>3 DEF AllWhole, Renamed, Unharmed
<1>5. QED
  BY <1>1, <1>2, <1>3, <1>4

LEMMA FileMoves ==
    ASSUME CardType, NEW path \in Paths, NEW from \in Paths, Renamed(from, path)
    PROVE  /\ faults' = faults /\ (AllWhole => AllWhole') /\ Exists(from)
           /\ files'[from] = Absent /\ files'[path] = files[from]
           /\ \A other \in Paths \ {from, path} : files'[other] = files[other]
  BY OtherSteps

LEMMA FileStays ==
    ASSUME CardType, NEW path \in Paths, NEW from \in Paths, RenameFails(from, path)
    PROVE  /\ files' = files
           /\ faults' = (IF Movable(from, path) THEN faults + 1 ELSE faults)
  BY OtherSteps

\* In a rename that is under way and has had one fault at most.
LEMMA UnderWay ==
    ASSUME IInv, OneInv, faults' \in {faults, faults + 1}, faults' < 2
    PROVE  /\ StageInv /\ CacheInv /\ OpenInv /\ RefsInv
           /\ faults \in {0, 1} /\ (faults' # faults => faults = 0 /\ faults' = 1)
  BY Known DEF OneInv

LEMMA BackCacheOne == IInv /\ OneInv /\ BackCache => OneInv'
<1> SUFFICES ASSUME IInv, OneInv, BackCache PROVE OneInv'
  OBVIOUS
<1>1. op.step = "back cache" /\ UNCHANGED refs
  BY DEF BackCache, CardOnly
<1>2. op \in Ops /\ CardType /\ "book" \notin op.moved
      /\ From("cache") \in Paths /\ To("cache") \in Paths
      /\ op.from \in Names /\ op.to \in Names /\ op.from # op.to
      /\ {op.from, op.to} = Names
  BY <1>1, Known, Ready DEF Undoing, From, To
<1>3. Undone /\ ~Back
  BY <1>1, <1>2 DEF Undone, Undoing, Back
<1>4. /\ op'.step = "idle" /\ op'.result = "RolledBack"
      /\ op'.from = op.from /\ op'.to = op.to /\ op'.moved = {}
  BY <1>2, Returning DEF BackCache, Results
<1>5. faults' \in {faults, faults + 1}
  BY <1>2, OtherSteps DEF BackCache, MayRename
<1>6. FreeInv'
  BY <1>4, NothingToKeepFree
<1>7. SUFFICES ASSUME faults' < 2
               PROVE  StageInv' /\ CacheInv' /\ OpenInv' /\ RefsInv'
  BY <1>6 DEF OneInv
<1>8. StageInv /\ CacheInv /\ OpenInv /\ RefsInv /\ faults \in {0, 1}
      /\ (faults' # faults => faults = 0 /\ faults' = 1)
  BY <1>5, <1>7, UnderWay
<1>9. CacheMoved /\ RefsAt(op.from) /\ openMem = openCard /\ (faults = 0 => NoneTorn)
      /\ ("cache" \in op.moved => faults = 1)
  BY <1>3, <1>8 DEF StageInv, CacheInv, OpenInv, RefsInv
<1>10. Book(op.from)
  BY <1>1, <1>2 DEF IInv, BookInv
<1>11. <<"book", op.from>> \in Paths \ {From("cache"), To("cache")}
       /\ Names \ {op.from} = {op.to}
  BY <1>2, Known DEF From, To
<1>12. /\ files'[<<"book", op.from>>] = files[<<"book", op.from>>]
       /\ CacheAt(op.from)' /\ (faults' = 0 => NoneTorn')
  <2>1. CASE "cache" \in op.moved
    <3>1. Exists(To("cache")) /\ ~Exists(From("cache"))
      BY <1>9, <2>1 DEF CacheMoved
    <3>2. MayRename(To("cache"), From("cache"))
      BY <2>1, <3>1 DEF BackCache
    <3>3. faults = 1 /\ faults' = faults
      BY <1>8, <1>9, <2>1
    <3>4. Renamed(To("cache"), From("cache"))
      <4>1. Movable(To("cache"), From("cache"))
        BY <3>1 DEF Movable
      <4>2. faults + 1 # faults
        BY <3>3
      <4>3. QED
        BY <1>2, <3>2, <3>3, <4>1, <4>2, OtherSteps DEF MayRename
    <3>5. files'[To("cache")] = Absent
          /\ files'[<<"book", op.from>>] = files[<<"book", op.from>>]
      BY <1>2, <1>11, <3>4, OtherSteps
    <3>6. Absent # {"mine"}
      BY DocsAssumption DEF DocsAssumption
    <3>7. CacheAt(op.from)'
      BY <1>4, <1>11, <3>5, <3>6 DEF CacheAt, To
    <3>8. QED
      BY <3>3, <3>5, <3>7
  <2>2. CASE "cache" \notin op.moved
    <3>1. files' = files /\ faults' = faults
      BY <1>2, <2>2, OtherSteps DEF BackCache
    <3>2. CacheAt(op.from)
      BY <1>9, <2>2 DEF CacheMoved
    <3>3. NoneTorn => NoneTorn'
      BY <1>1, <3>1 DEF NoneTorn
    <3>4. QED
      BY <1>4, <1>9, <3>1, <3>2, <3>3 DEF CacheAt
  <2>3. QED
    BY <2>1, <2>2
<1>13. Book(op.from)' /\ RefsAt(op.from)' /\ openMem' = openCard'
  BY <1>1, <1>4, <1>9, <1>10, <1>12 DEF Book, Exists, RefsAt, refs
<1>14. ~Back' /\ ~Undone' /\ op'.step \notin Before \cup Moving \cup Committing
  BY <1>4 DEF Back, Undone, Undoing, Before, MarkSteps, ClipSteps, Moving, Committing
<1>15. StageInv'
  BY <1>4, <1>12, <1>14 DEF StageInv
<1>16. CacheInv' /\ OpenInv' /\ RefsInv'
  BY <1>2, <1>4, <1>12, <1>13, <1>14 DEF CacheInv, OpenInv, RefsInv, Moving, CacheAt, RefsAt,
     Book, Exists
<1>17. QED
  BY <1>15, <1>16

-----------------------------------------------------------------------------
(* The way forward and back of what is moved.                              *)

\* One step of the rename: what the record of its progress becomes.
Progress(step, moved, result) ==
    /\ op'.step = step /\ op'.moved = moved /\ op'.result = result
    /\ op'.from = op.from /\ op'.to = op.to /\ op'.open = op.open

LEMMA Progresses ==
    ASSUME op \in Ops, NEW step, NEW moved, NEW result
    PROVE  /\ op' = [op EXCEPT !.step = step] => Progress(step, op.moved, op.result)
           /\ op' = [op EXCEPT !.step = step, !.moved = moved] =>
                 Progress(step, moved, op.result)
           /\ op' = [op EXCEPT !.moved = moved, !.step = step] =>
                 Progress(step, moved, op.result)
           /\ op' = [op EXCEPT !.step = step, !.result = result] =>
                 Progress(step, op.moved, result)
           /\ op' = [op EXCEPT !.step = step, !.moved = moved, !.result = result] =>
                 Progress(step, moved, result)
  BY DEF Ops, Progress

LEMMA MoveCacheOne == IInv /\ OneInv /\ MoveCache => OneInv'
<1> SUFFICES ASSUME IInv, OneInv, MoveCache PROVE OneInv'
  OBVIOUS
<1>1. op.step = "move cache" /\ op.step \in Before /\ UNCHANGED refs
  BY DEF MoveCache, CardOnly, Before
<1>2. op \in Ops /\ CardType /\ "book" \notin op.moved
      /\ From("cache") \in Paths /\ To("cache") \in Paths /\ From("cache") # To("cache")
      /\ op.from \in Names /\ op.to \in Names /\ op.from # op.to
      /\ Names \ {op.from} = {op.to} /\ faults \in Nat
  BY <1>1, Known DEF From, To, IInv, BookInv, Forth, Committing
<1>3. \/ ~Exists(From("cache")) /\ Untouched /\ Progress("move book", op.moved, op.result)
      \/ Renamed(From("cache"), To("cache")) /\ Progress("move book", {"cache"}, op.result)
      \/ /\ Exists(From("cache")) /\ RenameFails(From("cache"), To("cache"))
         /\ Progress("recover", op.moved, op.result)
  BY <1>2, Progresses DEF MoveCache, Move, Goto
<1>4. faults' \in {faults, faults + 1}
  BY <1>2, <1>3, OtherSteps
<1>5. op'.step \in {"move book", "recover"} /\ op'.from = op.from /\ op'.to = op.to
      /\ op'.open = op.open
  BY <1>3 DEF Progress
<1>6. FreeInv'
  BY <1>5, NothingToKeepFree
<1>7. SUFFICES ASSUME faults' < 2
               PROVE  StageInv' /\ CacheInv' /\ OpenInv' /\ RefsInv'
  BY <1>6 DEF OneInv
<1>8. StageInv /\ CacheInv /\ OpenInv /\ RefsInv /\ faults \in {0, 1}
      /\ (faults' # faults => faults = 0 /\ faults' = 1)
  BY <1>4, <1>7, UnderWay
<1>9. op.moved = {} /\ (CacheAt(op.from) \/ CutOff) /\ (RefsAt(op.from) \/ CutOff)
      /\ (op.open <=> openMem = op.from) /\ (faults = 0 => AllWhole)
      /\ openMem = openCard
  BY <1>1, <1>8, TornMeansWhole DEF StageInv, CacheInv, OpenInv, RefsInv, Back
<1>10. RefsAt(op.from)' <=> RefsAt(op.from)
  BY <1>1, <1>5 DEF RefsAt, refs
<1>11. openMem' = openMem /\ openCard' = openCard
  BY <1>1 DEF refs
<1>12. CASE \/ ~Exists(From("cache")) /\ Untouched /\ Progress("move book", op.moved, op.result)
            \/ /\ Renamed(From("cache"), To("cache"))
               /\ Progress("move book", {"cache"}, op.result)
  <2>1. op'.step = "move book" /\ op'.moved \in SUBSET {"cache"}
    BY <1>9, <1>12 DEF Progress
  <2>2. faults' = faults /\ (AllWhole => AllWhole') /\ ~Exists(From("cache"))'
        /\ (CacheMoved' \/ faults' = 1)
    <3>1. CASE Untouched /\ Progress("move book", op.moved, op.result)
               /\ ~Exists(From("cache"))
      <4>1. files' = files /\ faults' = faults
        BY <1>2, <3>1, OtherSteps
      <4>2. CacheAt(op.from) => CacheMoved'
        BY <1>9, <3>1, <4>1 DEF CacheMoved, CacheAt, Progress
      <4>3. QED
        BY <1>5, <1>9, <3>1, <4>1, <4>2 DEF AllWhole, Exists, From, CutOff
    <3>2. CASE Renamed(From("cache"), To("cache"))
               /\ Progress("move book", {"cache"}, op.result)
      <4>1. faults' = faults /\ (AllWhole => AllWhole')
        BY <1>2, <3>2, FileMoves, Zenon
      <4>6. files'[From("cache")] = Absent /\ files'[To("cache")] = files[From("cache")]
        <5>1. CardType /\ From("cache") \in Paths /\ To("cache") \in Paths
              /\ Renamed(From("cache"), To("cache"))
          BY <1>2, <3>2
        <5>2. QED
          BY <5>1, FileMoves
      <4>7. Exists(From("cache"))
        BY <3>2 DEF Renamed, Movable
      <4>2. From("cache")' = From("cache") /\ To("cache")' = To("cache")
        BY <1>5 DEF From, To
      <4>3. ~Exists(From("cache"))' /\ Exists(To("cache"))'
        BY <4>2, <4>6, <4>7 DEF Exists
      <4>4. CacheMoved'
        BY <3>2, <4>3 DEF CacheMoved, Progress
      <4>5. QED
        BY <4>1, <4>3, <4>4
    <3>3. QED
      BY <1>12, <3>1, <3>2
  <2>3. ~Back' /\ ~Undone'
    BY <2>1 DEF Back, Undone, Undoing
  <2>4. AllWhole' => NoneTorn'
    BY DEF AllWhole, NoneTorn
  <2>5. StageInv'
    BY <1>9, <2>1, <2>2, <2>3, <2>4
       DEF StageInv, Before, MarkSteps, ClipSteps, Committing
  <2>6. CacheInv'
    BY <2>1, <2>2, <2>3 DEF CacheInv, Before, MarkSteps, ClipSteps
  <2>7. OpenInv' /\ RefsInv'
    BY <1>5, <1>9, <1>10, <1>11, <2>1, <2>2, <2>3
       DEF OpenInv, RefsInv, Before, MarkSteps, ClipSteps, Committing, CutOff
  <2>8. QED
    BY <2>5, <2>6, <2>7
<1>13. CASE /\ Exists(From("cache")) /\ RenameFails(From("cache"), To("cache"))
            /\ Progress("recover", op.moved, op.result)
  <2>1. op'.step = "recover" /\ op'.moved = {}
    BY <1>9, <1>13 DEF Progress
  <2>2. files' = files
        /\ faults' = (IF Movable(From("cache"), To("cache")) THEN faults + 1 ELSE faults)
    BY <1>2, <1>13, OtherSteps
  <2>3. ~CutOff
    <3>1. CASE Movable(From("cache"), To("cache"))
      BY <1>7, <1>8, <2>2, <3>1 DEF CutOff
    <3>2. CASE ~Movable(From("cache"), To("cache"))
      <4>1. Exists(From("cache")) /\ Exists(To("cache"))
        BY <1>13, <3>2 DEF Movable
      <4>2. \A name \in Names : Exists(<<"cache", name>>)
        BY <1>2, <4>1 DEF From, To
      <4>3. QED
        BY <4>2 DEF CutOff
    <3>3. QED
      BY <3>1, <3>2
  <2>4. ~Back' /\ Undone'
    BY <2>1 DEF Back, Undone, Undoing
  <2>5. CacheMoved'
    BY <1>5, <1>9, <2>1, <2>2, <2>3 DEF CacheMoved, CacheAt
  <2>6. faults' = 0 => NoneTorn'
    BY <1>8, <1>9, <2>2 DEF AllWhole, NoneTorn
  <2>7. StageInv'
    BY <2>1, <2>4, <2>6 DEF StageInv, Before, MarkSteps, ClipSteps, Committing
  <2>8. CacheInv'
    BY <2>1, <2>4, <2>5 DEF CacheInv, Before, MarkSteps, ClipSteps, Moving, Committing
  <2>9. OpenInv' /\ RefsInv'
    BY <1>9, <1>10, <1>11, <2>1, <2>3, <2>4
       DEF OpenInv, RefsInv, Before, MarkSteps, ClipSteps, Moving, Committing
  <2>10. QED
    BY <2>7, <2>8, <2>9
<1>14. QED
  BY <1>3, <1>12, <1>13

LEMMA MoveBookOne == IInv /\ OneInv /\ MoveBook => OneInv'
<1> SUFFICES ASSUME IInv, OneInv, MoveBook PROVE OneInv'
  OBVIOUS
<1>1. op.step = "move book" /\ op.step \in Moving /\ UNCHANGED refs
  BY DEF MoveBook, CardOnly, Moving
<1>2. op \in Ops /\ CardType
      /\ From("cache") \in Paths /\ To("cache") \in Paths
      /\ From("book") \in Paths /\ To("book") \in Paths
      /\ op.from \in Names /\ op.to \in Names /\ op.from # op.to
      /\ Names \ {op.from} = {op.to} /\ faults \in Nat
      /\ {From("cache"), To("cache")} \cap {From("book"), To("book")} = {}
  BY Known DEF From, To
<1>17. "book" \notin op.moved
  BY <1>1 DEF IInv, BookInv, Forth, Committing
<1>3. Movable(From("book"), To("book"))
  BY <1>1, <1>2, <1>17, Known DEF IInv, BookInv, Book, Movable, From, To
<1>4. \/ Renamed(From("book"), To("book"))
         /\ Progress("move recent", op.moved \cup {"book"}, op.result)
      \/ RenameFails(From("book"), To("book")) /\ Progress("recover", op.moved, op.result)
  BY <1>2, Progresses DEF MoveBook, Move, Goto
<1>5. /\ faults' \in {faults, faults + 1}
      /\ files'[From("cache")] = files[From("cache")]
      /\ files'[To("cache")] = files[To("cache")]
      /\ AllWhole => AllWhole'
  <2>1. CASE Renamed(From("book"), To("book"))
    <3>1. faults' = faults /\ (AllWhole => AllWhole')
      BY <1>2, <2>1, FileMoves, Zenon
    <3>2. files'[From("cache")] = files[From("cache")] /\ files'[To("cache")] = files[To("cache")]
      <4>1. From("cache") \in Paths \ {From("book"), To("book")}
            /\ To("cache") \in Paths \ {From("book"), To("book")}
        BY <1>2
      <4>2. QED
        BY <1>2, <2>1, <4>1, FileMoves
    <3>3. QED
      BY <3>1, <3>2
  <2>2. CASE RenameFails(From("book"), To("book"))
    BY <1>2, <2>2, FileStays DEF AllWhole
  <2>3. QED
    BY <1>4, <2>1, <2>2
<1>6. op'.step \in {"move recent", "recover"} /\ op'.from = op.from /\ op'.to = op.to
      /\ op'.open = op.open /\ op'.moved \cap {"cache", "recent", "open"} =
                               op.moved \cap {"cache", "recent", "open"}
  BY <1>4 DEF Progress
<1>7. FreeInv'
  BY <1>6, NothingToKeepFree
<1>8. SUFFICES ASSUME faults' < 2
               PROVE  StageInv' /\ CacheInv' /\ OpenInv' /\ RefsInv'
  BY <1>7 DEF OneInv
<1>9. StageInv /\ CacheInv /\ OpenInv /\ RefsInv /\ faults \in {0, 1}
      /\ (faults' # faults => faults = 0 /\ faults' = 1)
  BY <1>5, <1>8, UnderWay
<1>10. /\ op.moved \cap {"recent", "open"} = {} /\ ~Exists(From("cache"))
       /\ CacheMoved \/ faults = 1
       /\ RefsAt(op.from) \/ faults = 1
       /\ op.open <=> openMem = op.from
       /\ openMem = openCard /\ (faults = 0 => AllWhole)
  BY <1>1, <1>9, TornMeansWhole DEF StageInv, CacheInv, OpenInv, RefsInv, Back
<1>11. /\ RefsAt(op.from)' <=> RefsAt(op.from)
       /\ openMem' = openMem /\ openCard' = openCard
  BY <1>1, <1>6 DEF RefsAt, refs
<1>12. ~Exists(From("cache"))' /\ (CacheMoved' <=> CacheMoved)
  BY <1>2, <1>5, <1>6, <1>10 DEF Exists, From, To, CacheMoved, CacheAt
<1>13. faults' = 0 => NoneTorn'
  BY <1>5, <1>9, <1>10 DEF AllWhole, NoneTorn
<1>14. CASE Renamed(From("book"), To("book"))
            /\ Progress("move recent", op.moved \cup {"book"}, op.result)
  <2>1. op'.step = "move recent" /\ faults' = faults
    BY <1>2, <1>14, OtherSteps DEF Progress
  <2>2. ~Back' /\ ~Undone'
    BY <2>1 DEF Back, Undone, Undoing
  <2>3. StageInv'
    BY <1>6, <1>10, <1>13, <2>1, <2>2
       DEF StageInv, Before, MarkSteps, ClipSteps, Committing
  <2>4. CacheInv'
    BY <1>10, <1>12, <2>1, <2>2 DEF CacheInv, Before, MarkSteps, ClipSteps
  <2>5. OpenInv' /\ RefsInv'
    BY <1>6, <1>10, <1>11, <2>1, <2>2
       DEF OpenInv, RefsInv, Before, MarkSteps, ClipSteps, Committing
  <2>6. QED
    BY <2>3, <2>4, <2>5
<1>15. CASE RenameFails(From("book"), To("book")) /\ Progress("recover", op.moved, op.result)
  <2>1. op'.step = "recover" /\ op'.moved = op.moved /\ faults' = faults + 1
    BY <1>2, <1>3, <1>15, OtherSteps DEF Progress
  <2>2. faults = 0 /\ faults' = 1
    BY <1>9, <2>1
  <2>3. ~Back' /\ Undone'
    BY <1>17, <2>1 DEF Back, Undone, Undoing
  <2>4. StageInv'
    BY <1>10, <2>1, <2>2, <2>3 DEF StageInv, Before, MarkSteps, ClipSteps, Committing
  <2>5. CacheInv'
    BY <1>10, <1>12, <2>1, <2>2, <2>3
       DEF CacheInv, Before, MarkSteps, ClipSteps, Moving, Committing
  <2>6. OpenInv' /\ RefsInv'
    BY <1>10, <1>11, <2>1, <2>2, <2>3
       DEF OpenInv, RefsInv, Before, MarkSteps, ClipSteps, Moving, Committing
  <2>7. QED
    BY <2>4, <2>5, <2>6
<1>16. QED
  BY <1>4, <1>14, <1>15

\* What follows from the card being left alone.
LEMMA SameCard ==
    ASSUME files' = files, op'.from = op.from, op'.to = op.to
    PROVE  /\ Exists(From("cache"))' <=> Exists(From("cache"))
           /\ (op'.moved \cap {"cache"} = op.moved \cap {"cache"}) =>
                  (CacheMoved' <=> CacheMoved)
           /\ \A name \in Names : CacheAt(name)' <=> CacheAt(name)
           /\ \A name \in Names : Book(name)' <=> Book(name)
           /\ AllWhole => NoneTorn'
<1>1. Exists(From("cache"))' <=> Exists(From("cache"))
  BY DEF Exists, From
<1>2. (op'.moved \cap {"cache"} = op.moved \cap {"cache"}) => (CacheMoved' <=> CacheMoved)
  BY DEF CacheMoved, CacheAt, Exists, From, To
<1>3. /\ \A name \in Names : CacheAt(name)' <=> CacheAt(name)
      /\ \A name \in Names : Book(name)' <=> Book(name)
  BY DEF CacheAt, Book, Exists
<1>4. AllWhole => NoneTorn'
  BY DEF AllWhole, NoneTorn
<1>5. QED
  BY <1>1, <1>2, <1>3, <1>4

LEMMA MoveRecentOne == IInv /\ OneInv /\ MoveRecent => OneInv'
<1> SUFFICES ASSUME IInv, OneInv, MoveRecent PROVE OneInv'
  OBVIOUS
<1>1. op.step = "move recent" /\ op.step \in Moving /\ files' = files
      /\ openMem' = openMem /\ openCard' = openCard
  BY DEF MoveRecent, UpdatePath, Moving
<1>2. op \in Ops /\ RefsType /\ op.from \in Names /\ op.to \in Names /\ op.from # op.to
      /\ Names = {op.from, op.to} /\ None \notin Names
  BY Known
<1>3. "book" \in op.moved
  BY <1>1 DEF IInv, BookInv, Forth
<1>4. \/ /\ faults' = faults /\ recent' = (IF recent = op.from THEN op.to ELSE recent)
         /\ Progress("move open", op.moved \cup {"recent"}, op.result)
      \/ /\ faults' = faults + 1 /\ recent' = recent
         /\ Progress("recover", op.moved, op.result)
  BY <1>2, Progresses DEF MoveRecent, UpdatePath, Goto, Unharmed, Fault
<1>5. op'.step \in {"move open", "recover"} /\ op'.from = op.from /\ op'.to = op.to
      /\ op'.open = op.open /\ op'.moved \cap {"cache"} = op.moved \cap {"cache"}
      /\ op'.moved \cap {"book", "open"} = op.moved \cap {"book", "open"}
      /\ faults' \in {faults, faults + 1}
  BY <1>4 DEF Progress
<1>6. FreeInv'
  BY <1>5, NothingToKeepFree
<1>7. SUFFICES ASSUME faults' < 2
               PROVE  StageInv' /\ CacheInv' /\ OpenInv' /\ RefsInv'
  BY <1>6 DEF OneInv
<1>8. StageInv /\ CacheInv /\ OpenInv /\ RefsInv /\ faults \in {0, 1}
      /\ (faults' # faults => faults = 0 /\ faults' = 1)
  BY <1>5, <1>7, UnderWay
<1>9. /\ op.moved \cap {"recent", "open"} = {} /\ ~Exists(From("cache"))
      /\ CacheMoved \/ faults = 1
      /\ RefsAt(op.from) \/ faults = 1
      /\ op.open <=> openMem = op.from
      /\ openMem = openCard /\ (faults = 0 => AllWhole)
  BY <1>1, <1>8, TornMeansWhole DEF StageInv, CacheInv, OpenInv, RefsInv, Back
<1>10. /\ ~Exists(From("cache"))' /\ (CacheMoved' <=> CacheMoved)
       /\ faults' = 0 => NoneTorn'
  BY <1>1, <1>5, <1>8, <1>9, SameCard
<1>11. CASE /\ faults' = faults /\ recent' = (IF recent = op.from THEN op.to ELSE recent)
            /\ Progress("move open", op.moved \cup {"recent"}, op.result)
  <2>1. op'.step = "move open" /\ op'.moved = op.moved \cup {"recent"}
    BY <1>11 DEF Progress
  <2>2. ~Back' /\ ~Undone'
    BY <2>1 DEF Back, Undone, Undoing
  <2>3. StageInv'
    BY <1>9, <1>10, <2>1, <2>2 DEF StageInv, Before, MarkSteps, ClipSteps, Committing
  <2>4. CacheInv'
    BY <1>9, <1>10, <1>11, <2>1, <2>2 DEF CacheInv, Before, MarkSteps, ClipSteps
  <2>5. recent' # op.from /\ (openMem' # op.to \/ faults' = 1)
    BY <1>1, <1>2, <1>9, <1>11 DEF RefsAt
  <2>6. OpenInv' /\ RefsInv'
    BY <1>1, <1>5, <1>9, <2>1, <2>2, <2>5
       DEF OpenInv, RefsInv, Before, MarkSteps, ClipSteps, Committing
  <2>7. QED
    BY <2>3, <2>4, <2>6
<1>12. CASE /\ faults' = faults + 1 /\ recent' = recent
            /\ Progress("recover", op.moved, op.result)
  <2>1. op'.step = "recover" /\ op'.moved = op.moved
    BY <1>12 DEF Progress
  <2>2. faults = 0 /\ faults' = 1
    BY <1>8, <1>12
  <2>3. Back' /\ ~Undone'
    BY <1>3, <2>1 DEF Back, Undone
  <2>4. StageInv'
    BY <2>1, <2>2, <2>3 DEF StageInv, Before, MarkSteps, ClipSteps, Committing
  <2>5. CacheInv'
    BY <1>9, <1>10, <2>1, <2>2, <2>3
       DEF CacheInv, Before, MarkSteps, ClipSteps, Moving, Committing
  <2>6. recent' # op.to /\ openMem' # op.to /\ "recent" \notin op'.moved
    <3>1. faults # 1
      BY <2>2
    <3>2. RefsAt(op.from)
      BY <1>9, <3>1, Zenon
    <3>3. recent # op.to /\ openMem # op.to
      BY <1>2, <3>2 DEF RefsAt
    <3>4. "recent" \notin op'.moved
      BY <1>9, <2>1
    <3>5. QED
      BY <1>1, <1>12, <3>3, <3>4
  <2>7. OpenInv' /\ RefsInv'
    BY <1>1, <1>5, <1>9, <2>1, <2>3, <2>6
       DEF OpenInv, RefsInv, Before, MarkSteps, ClipSteps, Moving, Committing
  <2>8. QED
    BY <2>4, <2>5, <2>7
<1>13. QED
  BY <1>4, <1>11, <1>12

LEMMA MoveOpenOne == IInv /\ OneInv /\ MoveOpen => OneInv'
<1> SUFFICES ASSUME IInv, OneInv, MoveOpen PROVE OneInv'
  OBVIOUS
<1>1. op.step = "move open" /\ op.step \in Moving /\ files' = files /\ recent' = recent
  BY DEF MoveOpen, SaveOpenPath, Moving, Untouched, CardOnly, refs
<1>2. op \in Ops /\ RefsType /\ op.from \in Names /\ op.to \in Names /\ op.from # op.to
      /\ Names = {op.from, op.to} /\ None \notin Names
  BY Known
<1>3. "book" \in op.moved
  BY <1>1 DEF IInv, BookInv, Forth
<1>4. \/ /\ op.open /\ faults' = faults /\ openMem' = op.to /\ openCard' = op.to
         /\ Progress("commit marks", op.moved \cup {"open"}, "Success")
      \/ /\ op.open /\ faults' = faults + 1 /\ openMem' = op.to
         /\ Progress("recover", op.moved \cup {"open"}, op.result)
      \/ /\ ~op.open /\ faults' = faults /\ openMem' = openMem /\ openCard' = openCard
         /\ Progress("commit marks", op.moved, "Success")
  BY <1>2, Progresses DEF MoveOpen, SaveOpenPath, Unharmed, Fault, Untouched, CardOnly, refs
<1>5. op'.step \in {"commit marks", "recover"} /\ op'.from = op.from /\ op'.to = op.to
      /\ op'.moved \cap {"cache"} = op.moved \cap {"cache"}
      /\ faults' \in {faults, faults + 1}
  BY <1>4 DEF Progress
<1>6. FreeInv'
  BY <1>5, NothingToKeepFree
<1>7. SUFFICES ASSUME faults' < 2
               PROVE  StageInv' /\ CacheInv' /\ OpenInv' /\ RefsInv'
  BY <1>6 DEF OneInv
<1>8. StageInv /\ CacheInv /\ OpenInv /\ RefsInv /\ faults \in {0, 1}
      /\ (faults' # faults => faults = 0 /\ faults' = 1)
  BY <1>5, <1>7, UnderWay
<1>9. /\ op.moved \cap {"recent", "open"} = {"recent"} /\ ~Exists(From("cache"))
      /\ CacheMoved \/ faults = 1
      /\ recent # op.from
      /\ op.open <=> openMem = op.from
      /\ openMem = openCard /\ (faults = 0 => AllWhole)
  BY <1>1, <1>8, TornMeansWhole DEF StageInv, CacheInv, OpenInv, RefsInv, Back
<1>10. /\ ~Exists(From("cache"))' /\ (CacheMoved' <=> CacheMoved)
       /\ faults' = 0 => NoneTorn'
  BY <1>1, <1>5, <1>8, <1>9, SameCard
<1>11. ASSUME Progress("commit marks", op'.moved, "Success"),
              \/ openMem' = op.to /\ openCard' = op.to
              \/ ~op.open /\ openMem' = openMem /\ openCard' = openCard
       PROVE  StageInv' /\ CacheInv' /\ OpenInv' /\ RefsInv'
  <2>1. op'.step = "commit marks" /\ op'.result = "Success"
    BY <1>11 DEF Progress
  <2>2. ~Back' /\ ~Undone'
    BY <2>1 DEF Back, Undone, Undoing
  <2>3. StageInv'
    BY <1>10, <2>1, <2>2 DEF StageInv, Before, MarkSteps, ClipSteps
  <2>4. CacheInv'
    BY <1>10, <2>1, <2>2 DEF CacheInv, Before, MarkSteps, ClipSteps, Moving
  <2>5. RefsAt(op.to)' /\ openMem' = openCard'
    <3>1. recent' \in {op.to, None}
      BY <1>1, <1>2, <1>9 DEF RefsType
    <3>2. openMem' \in {op.to, None} /\ openMem' = openCard'
      BY <1>2, <1>9, <1>11 DEF RefsType
    <3>3. QED
      BY <1>5, <3>1, <3>2 DEF RefsAt
  <2>6. OpenInv' /\ RefsInv'
    BY <2>1, <2>2, <2>5 DEF OpenInv, RefsInv, Before, MarkSteps, ClipSteps, Moving
  <2>7. QED
    BY <2>3, <2>4, <2>6
<1>12. CASE /\ op.open /\ faults' = faults + 1 /\ openMem' = op.to
            /\ Progress("recover", op.moved \cup {"open"}, op.result)
  <2>1. op'.step = "recover" /\ op'.moved = op.moved \cup {"open"}
    BY <1>12 DEF Progress
  <2>2. faults = 0 /\ faults' = 1
    BY <1>8, <1>12
  <2>3. Back' /\ ~Undone'
    BY <1>3, <2>1 DEF Back, Undone
  <2>4. StageInv'
    BY <2>1, <2>2, <2>3 DEF StageInv, Before, MarkSteps, ClipSteps, Committing
  <2>5. CacheInv'
    BY <1>9, <1>10, <2>1, <2>2, <2>3
       DEF CacheInv, Before, MarkSteps, ClipSteps, Moving, Committing
  <2>6. recent' # op'.from /\ "recent" \in op'.moved /\ "open" \in op'.moved
    BY <1>1, <1>5, <1>9, <2>1
  <2>7. OpenInv' /\ RefsInv'
    BY <2>1, <2>3, <2>6
       DEF OpenInv, RefsInv, Before, MarkSteps, ClipSteps, Moving, Committing
  <2>8. QED
    BY <2>4, <2>5, <2>7
<1>13. QED
  BY <1>4, <1>11, <1>12 DEF Progress

\* The sources go: what has moved stays, and the rename may be over.
LEMMA CommitsOne ==
    ASSUME IInv, OneInv, op.step \in Committing, Steady \/ Harmed, UNCHANGED refs,
           op'.step \in Committing \cup {"idle"}, op'.from = op.from, op'.to = op.to,
           op'.result = op.result
    PROVE  OneInv'
<1>1. op \in Ops /\ RefsType /\ op.from \in Names /\ op.to \in Names
      /\ Names \ {op.to} = {op.from} /\ <<"cache", op.from>> \in Paths
  BY Known
<1>2. Touches(MetaFiles) /\ faults' \in {faults, faults + 1}
  BY DEF Steady, Harmed
<1>3. op'.step \notin Before \cup Moving \cup
          {"back open", "back recent", "again", "keep recent", "keep open"}
      /\ op.step \notin {"write marks", "write clips"}
  BY DEF Before, MarkSteps, ClipSteps, Moving, Committing
<1>4. ~Back' /\ ~Undone' /\ ~Back
  BY DEF Back, Undone, Undoing, Committing
<1>5. FreeInv'
  BY <1>3, NothingToKeepFree DEF Committing
<1>6. SUFFICES ASSUME faults' < 2
               PROVE  StageInv' /\ CacheInv' /\ OpenInv' /\ RefsInv'
  BY <1>5 DEF OneInv
<1>7. StageInv /\ CacheInv /\ OpenInv /\ RefsInv /\ faults \in {0, 1}
      /\ (faults' # faults => faults = 0 /\ faults' = 1)
  BY <1>2, <1>6, UnderWay
<1>8. op.result = "Success" /\ (faults = 0 => AllWhole) /\ ~Exists(From("cache"))
      /\ openMem = openCard /\ RefsAt(op.to)
  BY <1>3, <1>4, <1>7, TornMeansWhole DEF StageInv, CacheInv, OpenInv, RefsInv
<1>9. \A kind \in {"cache", "book"}, name \in Names :
          files'[<<kind, name>>] = files[<<kind, name>>]
  BY <1>2, CachesStay
<1>10. Book(op.to)' /\ CacheAt(op.to)' /\ ~Exists(From("cache"))'
  <2>1. Book(op.to)
    <3>1. op.step \in Forth /\ op.step # "idle"
      BY DEF Forth, Committing
    <3>2. QED
      BY <3>1 DEF IInv, BookInv
  <2>2. files'[<<"cache", op.from>>] = Absent
    BY <1>1, <1>8, <1>9 DEF Exists, From
  <2>3. Absent # {"mine"}
    BY DocsAssumption DEF DocsAssumption
  <2>4. Book(op.to)'
    BY <1>1, <1>9, <2>1 DEF Book, Exists
  <2>5. CacheAt(op.to)'
    BY <1>1, <2>2, <2>3 DEF CacheAt
  <2>6. ~Exists(From("cache"))'
    BY <2>2 DEF Exists, From
  <2>7. QED
    BY <2>4, <2>5, <2>6
<1>11. RefsAt(op.to)' /\ openMem' = openCard'
  BY <1>8 DEF RefsAt, refs
<1>12. faults' = 0 => NoneTorn'
  <2>1. faults' = 0 => faults = 0 /\ faults' # faults + 1
    BY <1>7
  <2>2. AllWhole' => NoneTorn'
    BY DEF AllWhole, NoneTorn
  <2>3. QED
    BY <1>8, <2>1, <2>2 DEF Steady, Harmed
<1>13. StageInv'
  BY <1>3, <1>4, <1>8, <1>12 DEF StageInv, Moving
<1>14. CacheInv'
  <2>1. \E name \in Names : Book(name)' /\ CacheAt(name)'
    BY <1>1, <1>10 DEF Book, CacheAt, Exists
  <2>2. QED
    BY <1>3, <1>4, <1>10, <2>1 DEF CacheInv
<1>15. OpenInv' /\ RefsInv'
  <2>1. \E name \in Names : Book(name)' /\ RefsAt(name)'
    BY <1>1, <1>10, <1>11 DEF Book, RefsAt, Exists
  <2>2. QED
    BY <1>3, <1>4, <1>11, <2>1 DEF OpenInv, RefsInv, Moving
<1>16. QED
  BY <1>13, <1>14, <1>15

LEMMA CommitOne == IInv /\ OneInv /\ CommitMetadata => OneInv'
<1> SUFFICES ASSUME IInv, OneInv, CommitMetadata PROVE OneInv'
  OBVIOUS
<1>1. op \in Ops /\ CardType /\ \A kind \in Migrations :
          From(kind) \in MetaFiles /\ Parked(kind) \in MetaFiles
  BY Known, MetaPaths DEF Migrations
<1>2. ASSUME NEW kind \in Migrations, NEW here \in Committing, NEW next \in Committing,
             Commit(kind, here, next) \/ Tidy(kind, here, Goto(next))
      PROVE  OneInv'
  <2>1. Goto(next) /\ op.step \in Committing /\ UNCHANGED refs
        /\ (Untouched \/ MayRemove(From(kind)) \/ MayRemove(Parked(kind)))
    BY <1>2 DEF Commit, Tidy, CardOnly
  <2>2. Steady \/ Harmed
    BY <1>1, <2>1, MetaSteps
  <2>3. SameRename /\ op'.step = next
    BY <1>1, <2>1, Continues, Over
  <2>4. QED
    BY <2>1, <2>2, <2>3, CommitsOne DEF SameRename
<1>3. CASE Tidy("clips", "tidy clips", Return(op.result))
  <2>1. Return(op.result) /\ op.step \in Committing /\ UNCHANGED refs
        /\ (Untouched \/ MayRemove(Parked("clips")))
    BY <1>3 DEF Tidy, Committing, CardOnly
  <2>2. Steady \/ Harmed
    BY <1>1, <2>1, MetaSteps DEF Migrations
  <2>3. op.result \in Results
    BY <1>1 DEF Ops
  <2>4. /\ op'.step = "idle" /\ op'.result = op.result
        /\ op'.from = op.from /\ op'.to = op.to
    BY <1>1, <2>1, <2>3, Returning
  <2>5. QED
    BY <2>1, <2>2, <2>4, CommitsOne
<1>4. QED
  BY <1>2, <1>3 DEF CommitMetadata, Migrations, Committing

LEMMA RecoverOne == IInv /\ OneInv /\ Recover => OneInv'
<1> SUFFICES ASSUME IInv, OneInv, Recover PROVE OneInv'
  OBVIOUS
<1>1. op.step = "recover" /\ UNCHANGED refs
  BY DEF Recover, CardOnly
<1>2. op \in Ops /\ CardType /\ RefsType /\ op.from \in Names /\ op.to \in Names
      /\ op.from # op.to /\ From("book") \in Paths /\ To("book") \in Paths
      /\ From("cache") \in Paths \ {From("book"), To("book")}
      /\ To("cache") \in Paths \ {From("book"), To("book")}
  BY Known DEF From, To
<1>3. CASE "book" \notin op.moved
  <2>1. Untouched /\ Goto("drop clips") /\ Undone
    BY <1>1, <1>3 DEF Recover, Undone, Undoing
  <2>2. Steady
    <3>1. PICK path \in MetaFiles : TRUE
      BY <1>2, MetaPaths DEF Migrations
    <3>2. QED
      BY <1>2, <2>1, <3>1, MetaSteps
  <2>3. SameRename /\ op'.step = "drop clips" /\ "drop clips" \in Undoing
    BY <1>1, <1>2, <2>1, Continues DEF Steps, Undoing
  <2>4. QED
    BY <2>1, <2>2, <2>3, UndoesOne
<1>4. ASSUME "book" \in op.moved PROVE OneInv'
  <2>1. Movable(To("book"), From("book"))
    <3>1. Book(op.to) /\ ~Book(op.from)
      BY <1>1, <1>4 DEF IInv, BookInv
    <3>2. QED
      BY <3>1 DEF Book, Movable, Exists, From, To
  <2>2. \/ Renamed(To("book"), From("book"))
           /\ Progress("back open", op.moved \ {"book"}, op.result)
        \/ RenameFails(To("book"), From("book"))
           /\ Progress("keep recent", op.moved, op.result)
    BY <1>2, <1>4, Progresses DEF Recover, Move, Goto
  <2>3. op'.step \in {"back open", "keep recent"} /\ op'.from = op.from /\ op'.to = op.to
    BY <2>2 DEF Progress
  <2>4. FreeInv'
    BY <2>3, NothingToKeepFree
  <2>5. SUFFICES ASSUME faults' < 2
                 PROVE  StageInv' /\ CacheInv' /\ OpenInv' /\ RefsInv'
    BY <2>4 DEF OneInv
  <2>6. faults' \in {faults, faults + 1}
        /\ (RenameFails(To("book"), From("book")) => faults' = faults + 1)
    BY <1>2, <2>1, <2>2, OtherSteps
  <2>7. Back /\ ~Undone
    BY <1>1, <1>4 DEF Back, Undone
  <2>8. StageInv /\ CacheInv /\ OpenInv /\ RefsInv /\ (faults' # faults => faults = 0)
    BY <2>5, <2>6, UnderWay
  <2>9. faults = 1 /\ CacheMoved /\ (openMem = openCard \/ "open" \in op.moved)
        /\ recent # (IF "recent" \in op.moved THEN op.from ELSE op.to)
        /\ ("open" \notin op.moved => openMem # op.to)
    BY <2>7, <2>8 DEF StageInv, CacheInv, OpenInv, RefsInv
  <2>10. faults' = 1 /\ Renamed(To("book"), From("book"))
         /\ Progress("back open", op.moved \ {"book"}, op.result)
    <3>1. faults + 1 # 0 /\ (faults' # faults + 1)
      BY <2>5, <2>9
    <3>2. QED
      BY <2>2, <2>6, <2>9, <3>1
  <2>11. op'.step = "back open"
         /\ op'.moved \cap {"cache", "open", "recent"} = op.moved \cap {"cache", "open", "recent"}
    BY <2>10 DEF Progress
  <2>12. files'[From("cache")] = files[From("cache")] /\ files'[To("cache")] = files[To("cache")]
    <3>1. CardType /\ To("book") \in Paths /\ From("book") \in Paths
          /\ From("cache") \in Paths \ {To("book"), From("book")}
          /\ To("cache") \in Paths \ {To("book"), From("book")}
      BY <1>2
    <3>2. Renamed(To("book"), From("book"))
      BY <2>10
    <3>3. \A other \in Paths \ {To("book"), From("book")} : files'[other] = files[other]
      BY <3>1, <3>2, FileMoves
    <3>4. QED
      BY <3>1, <3>3
  <2>13. CacheMoved'
    BY <1>2, <2>3, <2>9, <2>11, <2>12, Known, ZenonT(40) DEF CacheMoved, CacheAt, Exists, From, To
  <2>14. Back' /\ ~Undone'
    BY <2>11 DEF Back, Undone, Undoing
  <2>15. recent' = recent /\ openMem' = openMem /\ openCard' = openCard
    BY <1>1 DEF refs
  <2>16. StageInv'
    <3>1. faults' = 1
      BY <2>10
    <3>2. op'.step = "back open"
      BY <2>11
    <3>3. ~Undone' /\ faults' # 0
      BY <2>14, <3>1
    <3>4. QED
      BY <3>1, <3>2, <3>3 DEF StageInv, Before, MarkSteps, ClipSteps, Committing
  <2>17. CacheInv'
    BY <2>11, <2>13, <2>14 DEF CacheInv, Before, MarkSteps, ClipSteps, Moving, Committing
  <2>18. OpenInv' /\ RefsInv'
    BY <2>3, <2>9, <2>11, <2>14, <2>15
       DEF OpenInv, RefsInv, Before, MarkSteps, ClipSteps, Moving, Committing
  <2>19. QED
    BY <2>16, <2>17, <2>18
<1>5. QED
  BY <1>3, <1>4

LEMMA BackOpenOne == IInv /\ OneInv /\ BackOpen => OneInv'
<1> SUFFICES ASSUME IInv, OneInv, BackOpen PROVE OneInv'
  OBVIOUS
<1>1. op.step = "back open" /\ files' = files /\ recent' = recent
  BY DEF BackOpen, SaveOpenPath, Untouched, CardOnly, refs
<1>2. op \in Ops /\ op.from # op.to
  BY Known
<1>3. \/ /\ "open" \in op.moved /\ faults' = faults
         /\ openMem' = op.from /\ openCard' = op.from
         /\ Progress("back recent", op.moved \ {"open"}, op.result)
      \/ /\ faults' = faults + 1 /\ Progress("back recent", op.moved, op.result)
      \/ /\ "open" \notin op.moved /\ faults' = faults
         /\ openMem' = openMem /\ openCard' = openCard
         /\ Progress("back recent", op.moved, op.result)
  BY <1>2, Progresses DEF BackOpen, SaveOpenPath, Goto, Unharmed, Fault, Untouched, CardOnly, refs
<1>4. op'.step = "back recent" /\ op'.from = op.from /\ op'.to = op.to
      /\ op'.moved \cap {"cache"} = op.moved \cap {"cache"}
      /\ (("recent" \in op'.moved) <=> ("recent" \in op.moved))
      /\ faults' \in {faults, faults + 1}
  BY <1>3 DEF Progress
<1>5. FreeInv'
  BY <1>4, NothingToKeepFree
<1>6. SUFFICES ASSUME faults' < 2
               PROVE  StageInv' /\ CacheInv' /\ OpenInv' /\ RefsInv'
  BY <1>5 DEF OneInv
<1>7. StageInv /\ CacheInv /\ OpenInv /\ RefsInv /\ (faults' # faults => faults = 0)
  BY <1>4, <1>6, UnderWay
<1>8. Back
  BY <1>1 DEF Back
<1>9. faults = 1 /\ CacheMoved /\ (openMem = openCard \/ "open" \in op.moved)
      /\ recent # (IF "recent" \in op.moved THEN op.from ELSE op.to)
      /\ ("open" \notin op.moved => openMem # op.to)
  BY <1>7, <1>8 DEF StageInv, CacheInv, OpenInv, RefsInv
<1>10. faults' = 1 /\ "open" \notin op'.moved /\ openMem' = openCard' /\ openMem' # op.to
  <2>1. faults' = 1 /\ faults' # faults + 1
    <3>1. faults = 1 /\ (faults' # faults => faults = 0)
      BY <1>7, <1>9
    <3>2. QED
      BY <3>1
  <2>2. CASE /\ "open" \in op.moved /\ openMem' = op.from /\ openCard' = op.from
             /\ Progress("back recent", op.moved \ {"open"}, op.result)
    BY <1>2, <2>1, <2>2 DEF Progress
  <2>3. CASE /\ "open" \notin op.moved /\ openMem' = openMem /\ openCard' = openCard
             /\ Progress("back recent", op.moved, op.result)
    BY <1>9, <2>1, <2>3 DEF Progress
  <2>4. QED
    BY <1>3, <2>1, <2>2, <2>3
<1>11. CacheMoved'
  BY <1>1, <1>4, <1>9, SameCard
<1>12. ~Undone' /\ faults' # 0
  <2>1. op'.step = "back recent" /\ faults' = 1
    BY <1>4, <1>10
  <2>2. ~Undone'
    BY <2>1 DEF Undone, Undoing
  <2>3. faults' # 0
    <3>1. faults' = 1
      BY <2>1
    <3>2. QED
      BY <3>1
  <2>4. QED
    BY <2>2, <2>3
<1>13. StageInv'
  BY <1>4, <1>10, <1>12 DEF StageInv, Before, MarkSteps, ClipSteps, Committing
<1>14. CacheInv'
  BY <1>4, <1>11, <1>12 DEF CacheInv, Before, MarkSteps, ClipSteps, Moving, Committing
<1>15. OpenInv'
  BY <1>4, <1>10 DEF OpenInv, Before, MarkSteps, ClipSteps, Moving
<1>16. RefsInv'
  BY <1>1, <1>4, <1>9, <1>10, <1>12
     DEF RefsInv, Before, MarkSteps, ClipSteps, Moving, Committing
<1>17. QED
  BY <1>13, <1>14, <1>15, <1>16

LEMMA BackRecentOne == IInv /\ OneInv /\ BackRecent => OneInv'
<1> SUFFICES ASSUME IInv, OneInv, BackRecent PROVE OneInv'
  OBVIOUS
<1> DEFINE next(moved) == [op EXCEPT !.moved = moved,
            !.step = IF moved \cap {"open", "recent"} = {} THEN "drop clips" ELSE "again"]
           after(moved) == IF moved \cap {"open", "recent"} = {} THEN "drop clips" ELSE "again"
<1>1. op.step = "back recent" /\ files' = files /\ openMem' = openMem /\ openCard' = openCard
  BY DEF BackRecent, UpdatePath, Untouched, CardOnly, refs
<1>2. op \in Ops /\ RefsType /\ op.from # op.to /\ Names = {op.from, op.to}
      /\ "book" \notin op.moved
  BY <1>1, Known, ReadyToMove DEF Prepared, Forth, Committing
<1>3. \A moved : op' = next(moved) => Progress(after(moved), moved, op.result)
  BY <1>2, Progresses
<1>4. \/ /\ "recent" \in op.moved /\ faults' = faults
         /\ recent' = (IF recent = op.to THEN op.from ELSE recent)
         /\ op' = next(op.moved \ {"recent"})
      \/ faults' = faults + 1 /\ op' = next(op.moved)
      \/ /\ "recent" \notin op.moved /\ faults' = faults /\ recent' = recent
         /\ op' = next(op.moved)
  BY DEF BackRecent, UpdatePath, Unharmed, Fault, Untouched, CardOnly, refs
<1> HIDE DEF next
<1>5. op'.step \in {"drop clips", "again"} /\ op'.from = op.from /\ op'.to = op.to
      /\ op'.moved \cap {"cache"} = op.moved \cap {"cache"}
      /\ op'.moved \subseteq op.moved /\ faults' \in {faults, faults + 1}
  <2>1. \E moved \in {op.moved, op.moved \ {"recent"}} :
            Progress(after(moved), moved, op.result)
    BY <1>3, <1>4
  <2>2. faults' \in {faults, faults + 1}
    BY <1>4
  <2>3. QED
    BY <2>1, <2>2 DEF Progress
<1>6. FreeInv'
  BY <1>5, NothingToKeepFree
<1>7. SUFFICES ASSUME faults' < 2
               PROVE  StageInv' /\ CacheInv' /\ OpenInv' /\ RefsInv'
  BY <1>6 DEF OneInv
<1>8. StageInv /\ CacheInv /\ OpenInv /\ RefsInv /\ (faults' # faults => faults = 0)
  BY <1>5, <1>7, UnderWay
<1>9. Back
  BY <1>1 DEF Back
<1>10. faults = 1 /\ CacheMoved /\ "open" \notin op.moved
       /\ openMem = openCard /\ openMem # op.to
       /\ recent # (IF "recent" \in op.moved THEN op.from ELSE op.to)
  BY <1>1, <1>8, <1>9 DEF StageInv, CacheInv, OpenInv, RefsInv
<1>11. /\ faults' = 1 /\ recent' # op.to /\ recent' \in Names \cup {None}
       /\ op'.step = "drop clips" /\ op'.moved \cap {"open", "recent"} = {}
  <2>1. faults' = 1 /\ faults' # faults + 1
    <3>1. faults = 1 /\ (faults' # faults => faults = 0)
      BY <1>8, <1>10
    <3>2. QED
      BY <3>1
  <2>2. CASE /\ "recent" \in op.moved /\ op' = next(op.moved \ {"recent"})
             /\ recent' = (IF recent = op.to THEN op.from ELSE recent)
    <3>1. Progress("drop clips", op.moved \ {"recent"}, op.result)
      <4>1. Progress(after(op.moved \ {"recent"}), op.moved \ {"recent"}, op.result)
        BY <1>3, <2>2
      <4>2. after(op.moved \ {"recent"}) = "drop clips"
        BY <1>10
      <4>3. QED
        BY <4>1, <4>2
    <3>2. QED
      BY <1>2, <1>10, <2>1, <2>2, <3>1 DEF Progress, RefsType
  <2>3. CASE "recent" \notin op.moved /\ recent' = recent /\ op' = next(op.moved)
    <3>1. Progress("drop clips", op.moved, op.result)
      <4>1. Progress(after(op.moved), op.moved, op.result)
        BY <1>3, <2>3
      <4>2. after(op.moved) = "drop clips"
        BY <1>10, <2>3
      <4>3. QED
        BY <4>1, <4>2
    <3>2. QED
      BY <1>2, <1>10, <2>1, <2>3, <3>1 DEF Progress, RefsType
  <2>4. QED
    BY <1>4, <2>1, <2>2, <2>3
<1>12. CacheMoved'
  BY <1>1, <1>5, <1>10, SameCard
<1>13. RefsAt(op.from)' /\ openMem' = openCard'
  BY <1>1, <1>2, <1>5, <1>10, <1>11 DEF RefsAt, RefsType
<1>14. ~Back' /\ Undone' /\ faults' # 0
  <2>1. op'.step = "drop clips" /\ faults' = 1 /\ "book" \notin op'.moved
    BY <1>2, <1>5, <1>11
  <2>2. ~Back' /\ Undone'
    BY <2>1 DEF Back, Undone, Undoing
  <2>3. faults' # 0
    <3>1. faults' = 1
      BY <2>1
    <3>2. QED
      BY <3>1
  <2>4. QED
    BY <2>2, <2>3
<1>15. StageInv'
  BY <1>11, <1>14 DEF StageInv, Before, MarkSteps, ClipSteps, Committing
<1>16. CacheInv'
  BY <1>11, <1>12, <1>14 DEF CacheInv, Before, MarkSteps, ClipSteps, Moving, Committing
<1>17. OpenInv' /\ RefsInv'
  BY <1>11, <1>13, <1>14 DEF OpenInv, RefsInv, Before, MarkSteps, ClipSteps, Moving, Committing
<1>18. QED
  BY <1>15, <1>16, <1>17

\* The second way forward is taken after two faults only.
LEMMA AgainOne == IInv /\ OneInv /\ (MoveAgain \/ KeepRecent \/ KeepOpen) => OneInv'
<1> SUFFICES ASSUME IInv, OneInv, MoveAgain \/ KeepRecent \/ KeepOpen PROVE OneInv'
  OBVIOUS
<1>1. op.step \in {"again", "keep recent", "keep open"}
  BY DEF MoveAgain, KeepRecent, KeepOpen
<1>2. op \in Ops /\ CardType /\ From("book") \in Paths /\ To("book") \in Paths /\ faults \in Nat
  BY Known DEF From, To
<1>3. faults' \in {faults, faults + 1}
  <2>1. CASE MoveAgain
    BY <1>2, <2>1, OtherSteps DEF MoveAgain, Move
  <2>2. CASE KeepRecent \/ KeepOpen
    BY <2>2 DEF KeepRecent, KeepOpen, UpdatePath, SaveOpenPath, Unharmed, Fault, Untouched
  <2>3. QED
    BY <2>1, <2>2
<1>4. op'.step \in {"keep recent", "drop clips", "keep open", "commit marks"}
  BY <1>2 DEF MoveAgain, Move, KeepRecent, KeepOpen, UpdatePath, SaveOpenPath, Goto, Ops
<1>5. ~StageInv
  BY <1>1 DEF StageInv
<1>6. ~(faults < 2) /\ ~(faults' < 2)
  BY <1>2, <1>3, <1>5 DEF OneInv
<1>7. FreeInv'
  BY <1>4, NothingToKeepFree
<1>8. QED
  BY <1>6, <1>7 DEF OneInv

\* The book that is renamed is the one at the name, and no other.
LEMMA OneBook ==
    ASSUME IInv, NEW here \in Names, NEW there \in Names, Book(here), Book(there)
    PROVE  here = there
<1>1. {op.from, op.to} = Names /\ ~(Book(op.from) /\ Book(op.to))
  BY Known DEF IInv, BookInv
<1>2. QED
  BY <1>1

LEMMA BeginOne == IInv /\ OneInv /\ Begin => OneInv'
<1> SUFFICES ASSUME IInv, OneInv, Begin PROVE OneInv'
  OBVIOUS
<1>1. PICK from \in Names, to \in Names :
          /\ Exists(<<"book", from>>) /\ ~Exists(<<"book", to>>)
          /\ op' = [Idle("none", from, to) EXCEPT !.step = "marks",
                                                  !.open = (openMem = from)]
  BY DEF Begin
<1>2. op.step = "idle" /\ files' = files /\ faults' = faults
      /\ recent' = recent /\ openMem' = openMem /\ openCard' = openCard
  BY DEF Begin, Untouched, CardOnly, refs
<1>3. op' = [step |-> "marks", from |-> from, to |-> to, active |-> {}, parked |-> {},
             moved |-> {}, open |-> (openMem = from), result |-> "none"]
  BY <1>1 DEF Idle
<1>4. op'.step = "marks" /\ op'.from = from /\ op'.to = to /\ op'.moved = {}
      /\ (op'.open <=> openMem = from)
  BY <1>3
<1>5. FreeInv'
  BY <1>4, NothingToKeepFree
<1>6. SUFFICES ASSUME faults' < 2
               PROVE  StageInv' /\ CacheInv' /\ OpenInv' /\ RefsInv'
  BY <1>5 DEF OneInv
<1>7. faults \in {0, 1} /\ StageInv /\ CacheInv /\ OpenInv /\ RefsInv
  BY <1>2, <1>6, UnderWay
<1>8. ~Back /\ op.step \notin {"write marks", "write clips"}
  BY <1>2 DEF Back
<1>9. openMem = openCard /\ (faults = 0 => NoneTorn)
  BY <1>7, <1>8 DEF OpenInv, StageInv
<1>10. CacheAt(from) \/ CutOff
  <2>1. CASE \E name \in Names : Book(name) /\ CacheAt(name)
    <3>1. PICK name \in Names : Book(name) /\ CacheAt(name)
      BY <2>1
    <3>2. name = from
      BY <1>1, <3>1, OneBook DEF Book
    <3>3. QED
      BY <3>1, <3>2
  <2>2. QED
    BY <1>2, <1>7, <2>1 DEF CacheInv
<1>11. RefsAt(from) \/ CutOff
  <2>1. CASE \E name \in Names : Book(name) /\ RefsAt(name)
    <3>1. PICK name \in Names : Book(name) /\ RefsAt(name)
      BY <2>1
    <3>2. name = from
      BY <1>1, <3>1, OneBook DEF Book
    <3>3. QED
      BY <3>1, <3>2
  <2>2. QED
    BY <1>2, <1>7, <2>1 DEF RefsInv
<1>12. NoneTorn => NoneTorn'
  BY <1>2, <1>8 DEF NoneTorn
<1>13. CutOff => CutOff'
  BY <1>2, <1>12 DEF CutOff, Exists
<1>14. (CacheAt(op.from)' <=> CacheAt(from)) /\ (RefsAt(op.from)' <=> RefsAt(from))
  BY <1>2, <1>4 DEF CacheAt, RefsAt
<1>15. ~Back' /\ ~Undone'
  BY <1>4 DEF Back, Undone, Undoing
<1>16. faults' = 0 => NoneTorn'
  BY <1>2, <1>9, <1>12
<1>17. StageInv'
  BY <1>4, <1>15, <1>16 DEF StageInv, Committing
<1>18. CacheInv'
  BY <1>4, <1>10, <1>13, <1>14, <1>15 DEF CacheInv, Moving, Committing
<1>19. OpenInv' /\ RefsInv'
  BY <1>2, <1>4, <1>9, <1>11, <1>13, <1>14, <1>15
     DEF OpenInv, RefsInv, Moving, Committing
<1>20. QED
  BY <1>17, <1>18, <1>19

\* Every step is of one of these stages.
LEMMA Stages ==
    ASSUME IInv
    PROVE  \/ op.step = "idle" \/ op.step \in Before \/ Undone \/ Back
           \/ op.step \in Moving \cup Committing
           \/ op.step \in {"again", "keep recent", "keep open"}
<1>1. op.step \in Steps
  BY Known DEF Ops
<1>2. op.step \in Undoing => Undone \/ Back
  BY Ready DEF Undone, Back
<1>3. QED
  BY <1>1, <1>2 DEF Steps, Before, MarkSteps, ClipSteps, Undoing, Moving, Committing, Back

\* Power is lost in a rename that had no fault before.
LEMMA CutOffOrNot ==
    ASSUME IInv, faults = 0, StageInv, CacheInv, OpenInv, RefsInv
    PROVE  \/ /\ op.step \in Moving \cup Committing
              /\ ~Exists(From("cache"))
           \/ /\ op.step \notin {"move open", "back open", "keep open"}
              /\ \E name \in Names : Book(name) /\ CacheAt(name) /\ RefsAt(name)
<1>1. ~Back /\ ~CutOff /\ op.step \notin {"again", "keep recent", "keep open"}
  <2>1. faults # 1
    OBVIOUS
  <2>2. QED
    BY <2>1 DEF StageInv, CutOff
<1>2. op.from \in Names /\ {op.from, op.to} = Names
  BY Known
<1>3. "book" \notin op.moved /\ op.step # "idle" => Book(op.from)
  BY <1>2 DEF IInv, BookInv
<1>4. CASE op.step = "idle"
  <2>1. PICK name \in Names : Book(name) /\ CacheAt(name)
    BY <1>1, <1>4 DEF CacheInv
  <2>2. PICK other \in Names : Book(other) /\ RefsAt(other)
    BY <1>1, <1>4 DEF RefsInv
  <2>3. name = other
    BY <2>1, <2>2, OneBook
  <2>4. QED
    BY <1>4, <2>1, <2>2, <2>3
<1>5. CASE op.step \in Before
  <2>1. op.moved = {} /\ CacheAt(op.from) /\ RefsAt(op.from)
    BY <1>1, <1>5 DEF StageInv, CacheInv, RefsInv
  <2>2. op.step \notin {"idle", "move open", "back open", "keep open"}
    BY <1>5 DEF Before, MarkSteps, ClipSteps
  <2>3. QED
    BY <1>2, <1>3, <2>1, <2>2
<1>6. CASE Undone
  <2>1. CacheMoved /\ RefsAt(op.from) /\ "cache" \notin op.moved
    <3>1. faults # 1
      OBVIOUS
    <3>2. QED
      BY <1>6, <3>1 DEF StageInv, CacheInv, RefsInv
  <2>2. CacheAt(op.from)
    BY <2>1 DEF CacheMoved
  <2>3. op.step \notin {"idle", "move open", "back open", "keep open"} /\ "book" \notin op.moved
    BY <1>6 DEF Undone, Undoing
  <2>4. QED
    BY <1>2, <1>3, <2>1, <2>2, <2>3
<1>7. CASE op.step \in Moving \cup Committing
  BY <1>7 DEF CacheInv
<1>8. QED
  BY <1>1, <1>4, <1>5, <1>6, <1>7, Stages

LEMMA PowerLossOne == IInv /\ OneInv /\ PowerLoss => OneInv'
<1> SUFFICES ASSUME IInv, OneInv, PowerLoss PROVE OneInv'
  OBVIOUS
<1>1. files' = files /\ faults' = faults + 1 /\ recent' = recent /\ openMem' = openCard'
      /\ (op.step \notin {"move open", "back open", "keep open"} => openCard' = openCard)
  BY DEF PowerLoss, PowerFails, Fault
<1>2. op \in Ops /\ Return("none")
  BY Known DEF PowerLoss, Return
<1>3. /\ op'.step = "idle" /\ op'.result = "none" /\ op'.moved = {}
      /\ op'.from = op.from /\ op'.to = op.to
  BY <1>2, Returning DEF Results
<1>4. FreeInv'
  BY <1>3, NothingToKeepFree
<1>5. SUFFICES ASSUME faults' < 2
               PROVE  StageInv' /\ CacheInv' /\ OpenInv' /\ RefsInv'
  BY <1>4 DEF OneInv
<1>6. faults' \in {faults, faults + 1} /\ faults' # faults
  <2>1. faults \in Nat
    BY Known
  <2>2. faults + 1 # faults
    BY <2>1
  <2>3. faults' = faults + 1
    BY <1>1
  <2>4. QED
    BY <2>2, <2>3
<1>7. StageInv /\ CacheInv /\ OpenInv /\ RefsInv /\ faults = 0 /\ faults' = 1
  BY <1>5, <1>6, UnderWay
<1>8. ~Back' /\ ~Undone' /\ op'.step \notin Before \cup Moving \cup Committing
  BY <1>3 DEF Back, Undone, Undoing, Before, MarkSteps, ClipSteps, Moving, Committing
<1>9. StageInv'
  <2>1. faults' # 0
    <3>1. faults' = 1
      BY <1>7
    <3>2. QED
      BY <3>1
  <2>2. QED
    BY <1>3, <1>8, <2>1 DEF StageInv, Moving
<1>10. \/ CutOff'
       \/ \E name \in Names : Book(name)' /\ CacheAt(name)' /\ RefsAt(name)'
  <2>1. CASE op.step \in Moving \cup Committing /\ ~Exists(From("cache"))
    <3>1. \E name \in Names : ~Exists(<<"cache", name>>)'
      BY <1>1, <2>1, Known DEF Exists, From
    <3>2. op.step \notin {"write marks", "write clips"}
      BY <2>1 DEF Moving, Committing
    <3>3. NoneTorn'
      BY <1>1, <1>7, <3>2 DEF StageInv, NoneTorn
    <3>4. faults' = 1
      BY <1>7
    <3>5. QED
      BY <3>1, <3>3, <3>4 DEF CutOff, Exists
  <2>2. CASE /\ op.step \notin {"move open", "back open", "keep open"}
             /\ \E name \in Names : Book(name) /\ CacheAt(name) /\ RefsAt(name)
    <3>1. PICK name \in Names : Book(name) /\ CacheAt(name) /\ RefsAt(name)
      BY <2>2
    <3>2. Book(name)' /\ CacheAt(name)'
      BY <1>1, <3>1 DEF Book, CacheAt, Exists
    <3>3. RefsAt(name)'
      BY <1>1, <2>2, <3>1 DEF RefsAt
    <3>4. QED
      BY <3>1, <3>2, <3>3 DEF Book, CacheAt, RefsAt, Exists
  <2>3. QED
    BY <1>7, <2>1, <2>2, CutOffOrNot
<1>11. CacheInv'
  BY <1>3, <1>8, <1>10 DEF CacheInv, Book, CacheAt, RefsAt, Exists
<1>12. OpenInv' /\ RefsInv'
  BY <1>1, <1>3, <1>8, <1>10 DEF OpenInv, RefsInv, Moving, Book, CacheAt, RefsAt, Exists
<1>13. QED
  BY <1>9, <1>11, <1>12

LEMMA StillOne == OneInv /\ UNCHANGED vars => OneInv'
<1> SUFFICES ASSUME OneInv, UNCHANGED vars PROVE OneInv'
  OBVIOUS
<1>1. UNCHANGED <<files, faults, op, recent, openMem, openCard>>
  BY DEF vars, cardVars, refs
<1>2. (FreeInv <=> FreeInv') /\ (NoneTorn <=> NoneTorn') /\ (Back <=> Back')
      /\ (Undone <=> Undone')
  BY <1>1 DEF FreeInv, NoneTorn, Back, Undone, Exists, To, Parked
<1>3. (CutOff <=> CutOff') /\ (CacheMoved <=> CacheMoved')
  BY <1>1, <1>2 DEF CutOff, CacheMoved, CacheAt, Exists, From, To
<1>4. StageInv <=> StageInv'
  BY <1>1, <1>2 DEF StageInv
<1>5. CacheInv <=> CacheInv'
  BY <1>1, <1>2, <1>3 DEF CacheInv, CacheAt, Book, Exists, From
<1>6. (OpenInv <=> OpenInv') /\ (RefsInv <=> RefsInv')
  BY <1>1, <1>2, <1>3 DEF OpenInv, RefsInv, RefsAt, Book, Exists
<1>7. QED
  BY <1>1, <1>2, <1>4, <1>5, <1>6 DEF OneInv

LEMMA StepOne == IInv /\ OneInv /\ [Next]_vars => OneInv'
<1>1. IInv /\ OneInv /\ Migrate => OneInv'
  BY MoveCacheOne, MoveBookOne, MoveRecentOne, MoveOpenOne, CommitOne DEF Migrate
<1>2. IInv /\ OneInv /\ GoBack => OneInv'
  BY RecoverOne, BackOpenOne, BackRecentOne, AgainOne, AbandonOne, BackCacheOne DEF GoBack
<1>3. IInv /\ OneInv /\ (BeginMarks \/ BeginClips \/ Abandon) => OneInv'
  BY PrepareOne, DiscardOne, AbandonOne
<1>4. QED
  BY <1>1, <1>2, <1>3, BeginOne, PowerLossOne, StillOne DEF Next

\* One failure of the card or one loss of power, wherever migrateRenamedBookState() meets
\* it, is undone or got over: once it has returned, the cache, the recent book and the
\* book to open again are where the book is.
THEOREM FailuresAreUndone == Spec => []OneFailureIsUndone
<1>1. IInv /\ OneInv => OneFailureIsUndone
  <2> SUFFICES ASSUME IInv, OneInv, op.result # "none", op.step = "idle", faults < 2
               PROVE  /\ {recent, openMem, openCard} \subseteq {BookName, None}
                      /\ \A name \in Names \ {BookName} : files[<<"cache", name>>] # {"mine"}
    BY DEF OneFailureIsUndone
  <2>1. PICK name \in Names : Book(name) /\ CacheAt(name)
    BY DEF OneInv, CacheInv
  <2>2. PICK other \in Names : Book(other) /\ RefsAt(other)
    BY DEF OneInv, RefsInv
  <2>3. name = other
    BY <2>1, <2>2, OneBook
  <2>4. BookName = name
    BY <2>1, OneBook DEF BookName, Book
  <2>5. QED
    BY <2>1, <2>2, <2>3, <2>4 DEF CacheAt, RefsAt
<1>2. Spec => [](IInv /\ OneInv)
  <2>1. Init => IInv /\ OneInv
    BY InitIInv, InitOne
  <2>2. (IInv /\ OneInv) /\ [Next]_vars => (IInv /\ OneInv)'
    BY StepIInv, StepOne
  <2>3. QED
    BY <2>1, <2>2, PTL DEF Spec
<1>3. QED
  BY <1>1, <1>2, PTL

-----------------------------------------------------------------------------
(* The bookmarks of the other book, on a card whose operations do not fail. *)

\* What was put aside of a name's bookmarks is part of those that are there.
Fits(name) ==
    files[<<"marks", name>>] \in Docs /\ files[<<"marks.bak", name>>] \in Docs =>
        files[<<"marks.bak", name>>] \subseteq files[<<"marks", name>>]

Holds(name) ==
    \E kind \in {"marks", "marks.bak"} : Readable(<<kind, name>>, "theirs")

\* What BothCanBeRestored says, without its exception: no write ends short.
TheirsKept ==
    "theirs" \in kept =>
        \E name \in Names, kind \in {"marks", "marks.bak"} : Readable(<<kind, name>>, "theirs")

FitInv == \A name \in Names : Fits(name)

\* The bookmarks are merged only over what was put aside or was not there.
MergeInv ==
    /\ op.step \notin {"abandon marks", "return marks"}
    /\ op.step \in {"marks", "read marks"} => op.active = {}
    /\ op.step \in {"read marks", "clean marks"} /\ ~Exists(To("marks")) =>
          ~Exists(Parked("marks"))
    /\ op.step = "park marks" => Exists(To("marks")) /\ ~Exists(Parked("marks"))
    /\ op.step \in {"open marks", "write marks"} =>
          /\ files[To("marks")] \in {Absent, Torn}
          /\ "marks" \notin op.parked => ~Exists(Parked("marks"))

\* The steps at which the bookmarks of the two books are not those of the new name.
Unmerged ==
    MarkSteps \cup {"idle", "tidy marks", "commit clips", "tidy clips", "restore marks",
                    "back cache"}

\* What was put aside, if anything was.
SetAside == IF "marks" \in op.parked THEN files[Parked("marks")] ELSE {}

\* What is at the new name is what both names had.
Merged ==
    /\ files[From("marks")] \in Docs
    /\ "marks" \in op.parked => files[Parked("marks")] \in Docs
    /\ files[To("marks")] = files[From("marks")] \cup SetAside

MergedInv ==
    /\ "marks" \in op.active /\ op.step \notin Unmerged => Merged
    /\ "marks" \in op.active /\ op.step = "tidy marks" => files[To("marks")] \in Docs

RestoreInv == FitInv /\ MergeInv /\ MergedInv /\ TheirsKept

LEMMA BothNames ==
    ASSUME IInv
    PROVE  /\ FitInv <=> Fits(op.from) /\ Fits(op.to)
           /\ TheirsKept <=> ("theirs" \in kept => Holds(op.from) \/ Holds(op.to))
<1>1. {op.from, op.to} = Names
  BY Known
<1>2. QED
  BY <1>1 DEF FitInv, TheirsKept, Holds

LEMMA BothNamesNext ==
    ASSUME IInv, op'.from = op.from, op'.to = op.to
    PROVE  /\ FitInv' <=> Fits(op.from)' /\ Fits(op.to)'
           /\ TheirsKept' <=>
                 ("theirs" \in kept' => Holds(op.from)' \/ Holds(op.to)')
<1>1. {op'.from, op'.to} = Names
  BY Known
<1>2. QED
  BY <1>1 DEF FitInv, TheirsKept, Holds, Fits, Readable

MarkPlaces == {"marks", "marks.bak"} \X Names

LEMMA MarkPaths ==
    ASSUME IInv
    PROVE  /\ MarkPlaces \subseteq Paths
           /\ From("marks") = <<"marks", op.from>> /\ To("marks") = <<"marks", op.to>>
           /\ Parked("marks") = <<"marks.bak", op.to>>
           /\ From("marks") \in MarkPlaces /\ To("marks") \in MarkPlaces
           /\ Parked("marks") \in MarkPlaces /\ <<"marks.bak", op.from>> \in MarkPlaces
           /\ op.from # op.to /\ op \in Ops /\ CardType
  BY Known DEF MarkPlaces, Kinds, From, To, Parked

LEMMA InitRestore == Init => RestoreInv
<1> SUFFICES ASSUME Init PROVE RestoreInv
  OBVIOUS
<1>1. PICK mine \in SUBSET {"cache", "marks", "clips"},
           theirs \in SUBSET {"cache", "marks", "clips", "clips.old"} :
          /\ files = [path \in Paths |->
                IF path \in ({"book"} \cup mine) \X {NameA} THEN {"mine"}
                ELSE IF path \in theirs \X {NameB} THEN {"theirs"} ELSE Absent]
          /\ kept = (mine \cap Migrations)
                    \cup (IF "marks" \in theirs THEN {"theirs"} ELSE {})
  BY DEF Init
<1>2. op.step = "idle" /\ op.active = {}
  BY DEF Init, Idle
<1>3. MergeInv /\ MergedInv
  BY <1>2 DEF MergeInv, MergedInv
<1>4. FitInv
  BY <1>1 DEF FitInv, Fits, Names, Kinds
<1>5. "theirs" \in kept => Readable(<<"marks", NameB>>, "theirs")
  <2>1. "theirs" \in kept => "marks" \in theirs
    BY <1>1 DEF Migrations
  <2>2. {"theirs"} \in Docs
    BY DocsAssumption DEF DocsAssumption
  <2>3. "marks" \in theirs => files[<<"marks", NameB>>] = {"theirs"}
    BY <1>1 DEF Names, Kinds
  <2>4. QED
    BY <2>1, <2>2, <2>3 DEF Readable
<1>6. QED
  BY <1>3, <1>4, <1>5 DEF RestoreInv, TheirsKept, Names

\* A step that leaves the bookmarks alone.
LEMMA Elsewhere ==
    ASSUME IInv, RestoreInv, kept' = kept, op'.from = op.from, op'.to = op.to,
           \A path \in MarkPlaces : files'[path] = files[path],
           op'.step \notin MarkSteps \cup {"abandon marks", "return marks", "tidy marks"},
           \/ op'.step \in Unmerged
           \/ "marks" \notin op'.active
           \/ /\ op.step \notin Unmerged /\ op'.active \cap {"marks"} = op.active \cap {"marks"}
              /\ op'.parked \cap {"marks"} = op.parked \cap {"marks"}
    PROVE  RestoreInv'
<1>1. FitInv' /\ TheirsKept'
  <2>1. FitInv /\ TheirsKept
    BY DEF RestoreInv
  <2>2. \A kind \in {"marks", "marks.bak"}, name \in Names :
            files'[<<kind, name>>] = files[<<kind, name>>]
    BY DEF MarkPlaces
  <2>3. QED
    BY <2>1, <2>2 DEF FitInv, Fits, TheirsKept, Readable
<1>2. MergeInv'
  BY DEF MergeInv, MarkSteps
<1>3. /\ files'[From("marks")] = files[From("marks")]
      /\ files'[To("marks")] = files[To("marks")]
      /\ files'[Parked("marks")] = files[Parked("marks")]
      /\ From("marks")' = From("marks") /\ To("marks")' = To("marks")
      /\ Parked("marks")' = Parked("marks")
  BY MarkPaths DEF From, To, Parked
<1>4. MergedInv'
  <2> SUFFICES ASSUME "marks" \in op'.active, op'.step \notin Unmerged PROVE Merged'
    BY DEF MergedInv
  <2>1. /\ op.step \notin Unmerged /\ "marks" \in op.active
        /\ "marks" \in op'.parked <=> "marks" \in op.parked
    OBVIOUS
  <2>2. Merged
    BY <2>1 DEF RestoreInv, MergedInv
  <2>3. QED
    BY <1>3, <2>1, <2>2 DEF Merged, SetAside
<1>5. QED
  BY <1>1, <1>2, <1>4 DEF RestoreInv

LEMMA OtherFiles ==
    ASSUME CardType, NEW path \in Paths \ MarkPlaces, NEW from \in Paths \ MarkPlaces, NEW doc,
           \/ Untouched \/ Fails \/ Cleared(path) \/ ClearFails(path) \/ MayRemove(path)
           \/ Renamed(from, path) \/ RenameFails(from, path) \/ MayRename(from, path)
           \/ Opened(path) \/ Written(path, doc)
    PROVE  \A place \in MarkPlaces : files'[place] = files[place]
<1>1. MarkPlaces \subseteq Paths
  BY DEF MarkPlaces, Kinds
<1>2. CASE Renamed(from, path)
  BY <1>1, <1>2 DEF Renamed, CardType
<1>3. CASE Cleared(path) \/ Opened(path) \/ Written(path, doc)
  BY <1>1, <1>3 DEF Cleared, Removed, Opened, Written, CardType, Untouched
<1>4. CASE Untouched \/ Fails \/ ClearFails(path) \/ RenameFails(from, path)
  BY <1>4 DEF ClearFails, RenameFails, Untouched, Fails
<1>5. QED
  BY <1>2, <1>3, <1>4 DEF MayRemove, MayRename

\* The rename goes on to a step, with the bookmarks as they were.
Aloof(step) ==
    /\ op'.step = step /\ op'.from = op.from /\ op'.to = op.to
    /\ op'.active \cap {"marks"} = op.active \cap {"marks"}
    /\ op'.parked \cap {"marks"} = op.parked \cap {"marks"}

LEMMA GoesAloof ==
    ASSUME op \in Ops, NEW step, NEW moved, NEW result
    PROVE  /\ Goto(step) => Aloof(step)
           /\ op' = [op EXCEPT !.step = step, !.active = @ \ {"clips"}] => Aloof(step)
           /\ op' = [op EXCEPT !.step = step, !.active = @ \cup {"clips"}] => Aloof(step)
           /\ op' = [[op EXCEPT !.step = step, !.active = @ \cup {"clips"}]
                        EXCEPT !.parked = @ \cup {"clips"}] => Aloof(step)
           /\ op' = [op EXCEPT !.step = step, !.moved = moved] => Aloof(step)
           /\ op' = [op EXCEPT !.moved = moved, !.step = step] => Aloof(step)
           /\ op' = [op EXCEPT !.step = step, !.result = result] => Aloof(step)
           /\ op' = [op EXCEPT !.step = step, !.moved = moved, !.result = result] =>
                 Aloof(step)
  BY DEF Ops, Goto, Aloof

\* The steps between the merge and the commit.
Between == Steps \ (Unmerged \cup {"abandon marks", "return marks"})

\* A step that keeps what is merged.
LEMMA Passes ==
    ASSUME IInv, RestoreInv, kept' = kept, op.step \notin Unmerged,
           \A place \in MarkPlaces : files'[place] = files[place],
           NEW step \in Between, Aloof(step)
    PROVE  RestoreInv'
<1>1. op'.step \notin MarkSteps \cup {"abandon marks", "return marks", "tidy marks"}
  BY DEF Aloof, Between, Unmerged
<1>2. QED
  BY <1>1, Elsewhere DEF Aloof

LEMMA OtherPaths ==
    ASSUME IInv
    PROVE  /\ \A kind \in Kinds \ {"marks", "marks.bak"} :
                 From(kind) \in Paths \ MarkPlaces /\ To(kind) \in Paths \ MarkPlaces
           /\ Parked("clips") \in Paths \ MarkPlaces
           /\ op \in Ops /\ CardType
  BY Known DEF From, To, Parked, MarkPlaces, Kinds

LEMMA BetweenSteps ==
    /\ ClipSteps \cup {"discard clips", "abandon clips", "return clips", "move cache",
           "move book", "move recent", "move open", "commit marks", "recover", "back open",
           "back recent", "again", "keep recent", "keep open", "drop clips", "restore clips",
           "drop marks"} \subseteq Between
    /\ Between \cap Unmerged = {}
<1>1. ClipSteps \subseteq Between
  BY DEF Between, Unmerged, MarkSteps, ClipSteps, Steps
<1>2. {"discard clips", "abandon clips", "return clips", "move cache",
       "move book", "move recent", "move open", "commit marks", "recover", "back open",
       "back recent", "again", "keep recent", "keep open", "drop clips", "restore clips",
       "drop marks"} \subseteq Between
  BY DEF Between, Unmerged, MarkSteps, Steps
<1>3. Between \cap Unmerged = {}
  BY DEF Between
<1>4. QED
  BY <1>1, <1>2, <1>3

LEMMA ClipsRestore == IInv /\ RestoreInv /\ BeginClips => RestoreInv'
<1> SUFFICES ASSUME IInv, RestoreInv, BeginClips PROVE RestoreInv'
  OBVIOUS
<1>1. op.step \in ClipSteps \cup {"discard clips"} /\ op.step \in Between /\ kept' = kept
      /\ op.step \notin Unmerged
  BY BetweenSteps DEF BeginClips, ClipSteps, RecoverParked, ReadClips, SettleClips,
     CleanClips, ParkClips, OpenClips, WriteClips, PublishClips, DiscardClips, CardOnly
<1>2. op \in Ops /\ CardType
  BY OtherPaths
<1>3. \A place \in MarkPlaces : files'[place] = files[place]
  <2>1. To("clips") \in Paths \ MarkPlaces /\ To("clips.tmp") \in Paths \ MarkPlaces
        /\ To("clips.old") \in Paths \ MarkPlaces /\ Parked("clips") \in Paths \ MarkPlaces
    BY OtherPaths DEF Kinds
  <2>2. \E path, from \in {To("clips"), To("clips.tmp"), To("clips.old"), Parked("clips")} :
            \/ Untouched \/ Fails \/ Cleared(path) \/ ClearFails(path) \/ MayRemove(path)
            \/ Renamed(from, path) \/ RenameFails(from, path)
            \/ Opened(path) \/ Written(path, files[From("clips")])
    BY DEF BeginClips, RecoverParked, ReadClips, SettleClips,
       CleanClips, ParkClips, OpenClips, WriteClips, PublishClips, DiscardClips, Move, Clear
  <2>3. QED
    BY <1>2, <2>1, <2>2, OtherFiles
<1>4. \E step \in {"read clips", "recover", "move cache", "settle clips", "clean clips",
                   "park clips", "open clips", "write clips", "publish clips",
                   "abandon clips", "discard clips"} : Aloof(step)
  <2> DEFINE active == [op EXCEPT !.step = "open clips", !.active = @ \cup {"clips"}]
             both == [active EXCEPT !.parked = @ \cup {"clips"}]
  <2>1. \/ \E step \in {"read clips", "recover", "move cache", "settle clips", "clean clips",
                   "park clips", "open clips", "write clips", "publish clips",
                   "abandon clips", "discard clips"} : Goto(step)
        \/ op' = active \/ op' = both
    BY DEF BeginClips, RecoverParked, ReadClips, SettleClips,
       CleanClips, ParkClips, OpenClips, WriteClips, PublishClips, DiscardClips, Move, Clear
  <2>2. op' = active \/ op' = both => Aloof("open clips")
    BY <1>2, GoesAloof
  <2> HIDE DEF active, both
  <2>3. QED
    BY <1>2, <2>1, <2>2, GoesAloof
<1>5. PICK step \in Between : Aloof(step)
  BY <1>4, BetweenSteps DEF ClipSteps
<1>6. QED
  BY <1>1, <1>3, <1>5, Passes

LEMMA ReferencesRestore ==
    ASSUME IInv, RestoreInv,
           \/ MoveCache \/ MoveBook \/ MoveRecent \/ MoveOpen \/ Recover
           \/ BackOpen \/ BackRecent \/ MoveAgain \/ KeepRecent \/ KeepOpen
    PROVE  RestoreInv'
<1>1. op.step \in Between /\ op.step \notin Unmerged
  BY BetweenSteps DEF MoveCache, MoveBook, MoveRecent, MoveOpen, Recover, BackOpen,
     BackRecent, MoveAgain, KeepRecent, KeepOpen
<1>2. kept' = kept
  BY DEF MoveCache, MoveBook, MoveRecent, MoveOpen, Recover, BackOpen, BackRecent, MoveAgain,
     KeepRecent, KeepOpen, UpdatePath, SaveOpenPath, CardOnly
<1>3. op \in Ops /\ CardType
  BY OtherPaths
<1>4. \A place \in MarkPlaces : files'[place] = files[place]
  <2>1. /\ From("cache") \in Paths \ MarkPlaces /\ To("cache") \in Paths \ MarkPlaces
        /\ From("book") \in Paths \ MarkPlaces /\ To("book") \in Paths \ MarkPlaces
    BY OtherPaths DEF Kinds
  <2>2. CASE MoveCache \/ MoveBook \/ Recover \/ MoveAgain
    <3>1. \E path, from \in {From("cache"), To("cache"), From("book"), To("book")} :
              Untouched \/ Renamed(from, path) \/ RenameFails(from, path)
      BY <2>2 DEF MoveCache, MoveBook, Recover, MoveAgain, Move
    <3>2. QED
      BY <1>3, <2>1, <3>1, OtherFiles
  <2>3. CASE MoveRecent \/ MoveOpen \/ BackOpen \/ BackRecent \/ KeepRecent \/ KeepOpen
    BY <2>3 DEF MoveRecent, MoveOpen, BackOpen, BackRecent, KeepRecent, KeepOpen,
       UpdatePath, SaveOpenPath, Untouched
  <2>4. QED
    BY <2>2, <2>3
<1>5. \E step \in Between : Aloof(step)
  <2>1. CASE MoveCache \/ MoveBook \/ MoveRecent \/ Recover \/ MoveAgain
    <3>1. \/ \E step \in {"move book", "recover", "keep recent", "drop clips"} : Goto(step)
          \/ \E step \in {"move book", "move recent", "move open", "back open", "keep recent"},
                moved \in {{"cache"}, op.moved \cup {"book"}, op.moved \cup {"recent"},
                           op.moved \ {"book"}} :
                op' = [op EXCEPT !.step = step, !.moved = moved]
      BY <1>3, <2>1 DEF MoveCache, MoveBook, MoveRecent, Recover, MoveAgain, Move,
         UpdatePath, Ops
    <3>2. QED
      BY <1>3, <3>1, GoesAloof, BetweenSteps
  <2>2. CASE MoveOpen
    <3>1. \/ op' = [op EXCEPT !.step = "commit marks", !.moved = op.moved \cup {"open"},
                              !.result = "Success"]
          \/ op' = [op EXCEPT !.step = "recover", !.moved = op.moved \cup {"open"}]
          \/ op' = [op EXCEPT !.step = "commit marks", !.result = "Success"]
      BY <1>3, <2>2 DEF MoveOpen, SaveOpenPath, Ops
    <3>2. Aloof("commit marks") \/ Aloof("recover")
      BY <1>3, <3>1, GoesAloof
    <3>3. QED
      BY <3>2, BetweenSteps
  <2>3. CASE BackOpen
    <3>1. \/ op' = [op EXCEPT !.step = "back recent", !.moved = op.moved \ {"open"}]
          \/ Goto("back recent")
      BY <1>3, <2>3 DEF BackOpen, SaveOpenPath, Ops
    <3>2. QED
      BY <1>3, <3>1, GoesAloof, BetweenSteps
  <2>4. CASE BackRecent
    <3> DEFINE next(moved) == [op EXCEPT !.moved = moved,
            !.step = IF moved \cap {"open", "recent"} = {} THEN "drop clips" ELSE "again"]
    <3>1. op' = next(op.moved \ {"recent"}) \/ op' = next(op.moved)
      BY <2>4 DEF BackRecent, UpdatePath
    <3>2. \A moved : op' = next(moved) => Aloof("drop clips") \/ Aloof("again")
      BY <1>3, GoesAloof
    <3> HIDE DEF next
    <3>3. QED
      BY <3>1, <3>2, BetweenSteps
  <2>5. CASE KeepRecent \/ KeepOpen
    <3>1. \/ Goto("keep open")
          \/ op' = [op EXCEPT !.step = "commit marks", !.result = "KeepRenamed"]
      BY <2>5 DEF KeepRecent, KeepOpen, UpdatePath, SaveOpenPath
    <3>2. QED
      BY <1>3, <3>1, GoesAloof, BetweenSteps
  <2>6. QED
    BY <2>1, <2>2, <2>3, <2>4, <2>5
<1>6. QED
  BY <1>1, <1>2, <1>4, <1>5, Passes

\* The steps of the clippings on the way back and in the commit.
LEMMA ClipsBackRestore ==
    ASSUME IInv, RestoreInv,
           \/ Drop("clips", "abandon clips", "return clips", "recover")
           \/ Restore("clips", "return clips", "recover")
           \/ Drop("clips", "drop clips", "restore clips", "drop marks")
           \/ Restore("clips", "restore clips", "drop marks")
    PROVE  RestoreInv'
<1>1. op.step \in Between /\ op.step \notin Unmerged /\ kept' = kept
  BY BetweenSteps DEF Drop, Restore, CardOnly
<1>2. op \in Ops /\ CardType /\ To("clips") \in Paths \ MarkPlaces
      /\ Parked("clips") \in Paths \ MarkPlaces
  BY OtherPaths DEF Kinds
<1>3. Untouched \/ MayRemove(To("clips")) \/ Renamed(Parked("clips"), To("clips"))
      \/ RenameFails(Parked("clips"), To("clips"))
  BY DEF Drop, Restore, Move
<1>4. \A place \in MarkPlaces : files'[place] = files[place]
  BY <1>2, <1>3, OtherFiles
<1>5. \E step \in {"return clips", "recover", "restore clips", "drop marks"} :
          Goto(step) \/ op' = [op EXCEPT !.step = step, !.active = @ \ {"clips"}]
  BY DEF Drop, Restore, Move
<1>6. \E step \in Between : Aloof(step)
  BY <1>2, <1>5, GoesAloof, BetweenSteps
<1>7. QED
  BY <1>1, <1>4, <1>6, Passes

\* The steps after which nothing is merged any more.
LEMMA EndsRestore ==
    ASSUME IInv, RestoreInv,
           \/ BackCache \/ PowerLoss
           \/ Commit("clips", "commit clips", "tidy clips")
           \/ Tidy("clips", "tidy clips", Return(op.result))
    PROVE  RestoreInv'
<1>1. op \in Ops /\ CardType /\ kept' = kept
  BY OtherPaths DEF BackCache, PowerLoss, Commit, Tidy, CardOnly
<1>2. op'.step \in {"idle", "tidy clips"} /\ op'.from = op.from /\ op'.to = op.to
  <2>1. \E result \in Results : Return(result) \/ Goto("tidy clips")
    BY <1>1 DEF BackCache, PowerLoss, Commit, Tidy, Return, Results, Ops
  <2>2. QED
    BY <1>1, <2>1, GoesAloof, Returning DEF Aloof
<1>3. \A place \in MarkPlaces : files'[place] = files[place]
  <2>1. /\ From("cache") \in Paths \ MarkPlaces /\ To("cache") \in Paths \ MarkPlaces
        /\ From("clips") \in Paths \ MarkPlaces /\ Parked("clips") \in Paths \ MarkPlaces
    BY OtherPaths DEF Kinds
  <2>2. CASE PowerLoss
    BY <2>2 DEF PowerLoss, PowerFails
  <2>3. CASE BackCache
    BY <1>1, <2>1, <2>3, OtherFiles DEF BackCache
  <2>4. CASE Commit("clips", "commit clips", "tidy clips")
    BY <1>1, <2>1, <2>4, OtherFiles DEF Commit
  <2>5. CASE Tidy("clips", "tidy clips", Return(op.result))
    BY <1>1, <2>1, <2>5, OtherFiles DEF Tidy
  <2>6. QED
    BY <2>2, <2>3, <2>4, <2>5
<1>4. op'.step \in Unmerged
      /\ op'.step \notin MarkSteps \cup {"abandon marks", "return marks", "tidy marks"}
  BY <1>2 DEF Unmerged, MarkSteps
<1>5. QED
  BY <1>1, <1>2, <1>3, <1>4, Elsewhere

-----------------------------------------------------------------------------
(* The steps of the bookmarks.                                             *)

\* What the invariant needs of a step that changes the bookmarks of one name.
LEMMA OneNameChanges ==
    ASSUME IInv, RestoreInv, op'.from = op.from, op'.to = op.to, kept' = kept,
           NEW name \in Names, Touches({<<"marks", name>>, <<"marks.bak", name>>}),
           Fits(name)', Holds(name) => Holds(name)' \/ \E other \in Names \ {name} : Holds(other)
    PROVE  FitInv' /\ TheirsKept'
<1>1. FitInv /\ TheirsKept /\ {op.from, op.to} = Names /\ op.from # op.to
  BY Known DEF RestoreInv
<1>2. PICK other \in Names : other # name /\ Names = {name, other}
  BY <1>1
<1>3. \A kind \in {"marks", "marks.bak"} : files'[<<kind, other>>] = files[<<kind, other>>]
  <2> SUFFICES ASSUME NEW kind \in {"marks", "marks.bak"}
               PROVE  <<kind, other>> \in Paths \ {<<"marks", name>>, <<"marks.bak", name>>}
    BY DEF Touches
  <2> QED
    BY <1>2 DEF Kinds
<1>4. (Fits(other)' <=> Fits(other)) /\ (Holds(other)' <=> Holds(other))
  BY <1>3 DEF Fits, Holds, Readable
<1>5. FitInv'
  BY <1>1, <1>2, <1>4 DEF FitInv, Fits
<1>6. "theirs" \in kept => Holds(name) \/ Holds(other)
  BY <1>1, <1>2 DEF TheirsKept, Holds
<1>7. "theirs" \in kept' => Holds(name)' \/ Holds(other)'
  BY <1>2, <1>4, <1>6
<1>8. TheirsKept'
  BY <1>2, <1>7 DEF TheirsKept, Holds, Readable
<1>9. QED
  BY <1>5, <1>8

\* A step of the preparation, after which nothing is merged yet.
LEMMA PreparesMarks ==
    ASSUME FitInv', TheirsKept', MergeInv', op'.step \in Unmerged \ {"tidy marks"}
    PROVE  RestoreInv'
  BY DEF RestoreInv, MergedInv

\* What is put aside comes back, or nothing happens.
LEMMA RecoverMarksRestore ==
    ~CardFails /\ IInv /\ RestoreInv /\ RecoverParked("marks", "read marks") => RestoreInv'
<1> SUFFICES ASSUME ~CardFails, IInv, RestoreInv, RecoverParked("marks", "read marks")
             PROVE  RestoreInv'
  OBVIOUS
<1>1. op.step = "marks" /\ kept' = kept /\ op.active = {}
  BY DEF RecoverParked, CardOnly, RestoreInv, MergeInv
<1>2. op \in Ops /\ CardType /\ op.to \in Names /\ To("marks") = <<"marks", op.to>>
      /\ Parked("marks") = <<"marks.bak", op.to>> /\ To("marks") \in Paths
      /\ Parked("marks") \in Paths /\ FitInv
  BY MarkPaths, Known DEF RestoreInv
<1>3. ~RenameFails(Parked("marks"), To("marks")) \/ ~Movable(Parked("marks"), To("marks"))
  BY DEF RenameFails, Fails
<1>4. Goto("read marks") /\
      \/ Renamed(Parked("marks"), To("marks"))
      \/ Untouched /\ ~(~Exists(To("marks")) /\ Exists(Parked("marks")))
  BY <1>3 DEF RecoverParked, Move, Movable
<1>5. op'.step = "read marks" /\ op'.from = op.from /\ op'.to = op.to /\ op'.active = {}
  BY <1>1, <1>2, <1>4, Going DEF Goto, On, Steps
<1>6. Touches({<<"marks", op.to>>, <<"marks.bak", op.to>>})
      /\ \/ /\ files'[Parked("marks")] = Absent
            /\ files'[To("marks")] = files[Parked("marks")] /\ files[To("marks")] = Absent
         \/ /\ files'[Parked("marks")] = files[Parked("marks")]
            /\ files'[To("marks")] = files[To("marks")]
            /\ ~(~Exists(To("marks")) /\ Exists(Parked("marks")))
  <2>1. CASE Renamed(Parked("marks"), To("marks"))
    <3>1. CardType /\ To("marks") \in Paths /\ Parked("marks") \in Paths
      BY <1>2
    <3>2. /\ Touches({Parked("marks"), To("marks")}) /\ ~Exists(To("marks"))
          /\ files'[Parked("marks")] = Absent /\ files'[To("marks")] = files[Parked("marks")]
      BY <2>1, <3>1, Renames
    <3>3. {Parked("marks"), To("marks")} = {<<"marks", op.to>>, <<"marks.bak", op.to>>}
      BY <1>2
    <3>4. QED
      BY <3>2, <3>3 DEF Exists
  <2>2. CASE Untouched /\ ~(~Exists(To("marks")) /\ Exists(Parked("marks")))
    BY <1>2, <2>2, CardSteps DEF Touches
  <2>3. QED
    BY <1>4, <2>1, <2>2
<1>7. Fits(op.to)'
  <2>1. Fits(op.to)
    BY <1>2 DEF FitInv
  <2>2. QED
    BY <1>2, <1>5, <1>6, <2>1 DEF Fits
<1>8. Holds(op.to) => Holds(op.to)'
  BY <1>2, <1>5, <1>6 DEF Holds, Readable
<1>9. MergeInv'
  <2>1. To("marks")' = To("marks") /\ Parked("marks")' = Parked("marks")
    BY <1>5 DEF To, Parked
  <2>2. ~Exists(To("marks"))' => ~Exists(Parked("marks"))'
    BY <1>6, <2>1 DEF Exists
  <2>3. QED
    BY <1>5, <2>2 DEF MergeInv
<1>10. Fits(op.to)' /\ (Holds(op.to) => Holds(op.to)') /\ op'.step \in Unmerged \ {"tidy marks"}
  BY <1>5, <1>7, <1>8 DEF Unmerged, MarkSteps
<1>11. FitInv' /\ TheirsKept'
  BY <1>1, <1>2, <1>5, <1>6, <1>7, <1>8, OneNameChanges DEF Fits, Holds, Readable
<1>12. QED
  BY <1>9, <1>10, <1>11, PreparesMarks

LEMMA NeverFails ==
    ASSUME ~CardFails, NEW path, NEW from
    PROVE  /\ ~Fails /\ ~ClearFails(path)
           /\ MayRemove(path) => Cleared(path)
           /\ RenameFails(from, path) => ~Movable(from, path) /\ Untouched
  BY DEF Fails, ClearFails, MayRemove, RenameFails

\* What the operations of the card do to the two bookmark files of a name.
LEMMA MarkCard ==
    ASSUME CardType, NEW name \in Names, NEW mark, mark = <<"marks", name>>,
           NEW bak, bak = <<"marks.bak", name>>
    PROVE  /\ mark \in Paths /\ bak \in Paths
           /\ files[mark] \in Contents /\ files[bak] \in Contents
           /\ Untouched => Touches({mark, bak})
                           /\ files'[mark] = files[mark] /\ files'[bak] = files[bak]
           /\ Renamed(mark, bak) =>
                 Touches({mark, bak}) /\ files'[mark] = Absent /\ files'[bak] = files[mark]
           /\ Renamed(bak, mark) =>
                 Touches({mark, bak}) /\ files'[bak] = Absent /\ files'[mark] = files[bak]
           /\ Cleared(mark) =>
                 Touches({mark, bak}) /\ files'[mark] = Absent /\ files'[bak] = files[bak]
           /\ Cleared(bak) =>
                 Touches({mark, bak}) /\ files'[bak] = Absent /\ files'[mark] = files[mark]
           /\ Opened(mark) =>
                 Touches({mark, bak}) /\ files'[mark] = Torn /\ files'[bak] = files[bak]
           /\ \A doc \in Docs : Written(mark, doc) =>
                 Touches({mark, bak}) /\ files'[mark] = doc /\ files'[bak] = files[bak]
<1>1. mark \in Paths /\ bak \in Paths /\ mark # bak
  BY DEF Kinds
<1>2. files[mark] \in Contents /\ files[bak] \in Contents
  BY <1>1 DEF CardType
<1>3. /\ Touches({mark}) => Touches({mark, bak}) /\ files'[bak] = files[bak]
      /\ Touches({bak}) => Touches({mark, bak}) /\ files'[mark] = files[mark]
      /\ Touches({bak, mark}) => Touches({mark, bak})
  BY <1>1 DEF Touches
<1>4. Untouched => Touches({mark, bak})
                   /\ files'[mark] = files[mark] /\ files'[bak] = files[bak]
  BY CardSteps DEF Touches
<1>5. Renamed(mark, bak) =>
          Touches({mark, bak}) /\ files'[mark] = Absent /\ files'[bak] = files[mark]
  BY <1>1, Renames
<1>6. Renamed(bak, mark) =>
          Touches({mark, bak}) /\ files'[bak] = Absent /\ files'[mark] = files[bak]
  BY <1>1, <1>3, Renames
<1>7. /\ Cleared(mark) => Touches({mark}) /\ files'[mark] = Absent
      /\ Cleared(bak) => Touches({bak}) /\ files'[bak] = Absent
  BY <1>1, Removals
<1>8. /\ Opened(mark) => Touches({mark}) /\ files'[mark] = Torn
      /\ \A doc \in Docs : Written(mark, doc) => Touches({mark}) /\ files'[mark] = doc
  BY <1>1, Writes
<1>9. QED
  BY <1>1, <1>2, <1>3, <1>4, <1>5, <1>6, <1>7, <1>8

LEMMA MarkGoes ==
    ASSUME CardType, NEW name \in Names, NEW mark, mark = <<"marks", name>>,
           NEW bak, bak = <<"marks.bak", name>>, Cleared(mark)
    PROVE  Touches({mark, bak}) /\ files'[mark] = Absent /\ files'[bak] = files[bak]
  BY MarkCard

LEMMA MarkReturns ==
    ASSUME CardType, NEW name \in Names, NEW mark, mark = <<"marks", name>>,
           NEW bak, bak = <<"marks.bak", name>>, Renamed(bak, mark)
    PROVE  Touches({mark, bak}) /\ files'[bak] = Absent /\ files'[mark] = files[bak]
  BY MarkCard

\* A file that says something is whole.
LEMMA Whole ==
    ASSUME NEW path \in Paths, CardType
    PROVE  /\ Readable(path, "theirs") <=> files[path] \in Docs /\ "theirs" \in files[path]
           /\ Exists(path) /\ files[path] # Torn => files[path] \in Docs
  BY DEF Readable, CardType, Contents, Exists

LEMMA MarkKnows ==
    ASSUME IInv, RestoreInv
    PROVE  /\ op \in Ops /\ CardType /\ op.from \in Names /\ op.to \in Names
           /\ op.from # op.to /\ Names = {op.from, op.to}
           /\ From("marks") = <<"marks", op.from>> /\ To("marks") = <<"marks", op.to>>
           /\ Parked("marks") = <<"marks.bak", op.to>>
           /\ From("marks") \in Paths /\ To("marks") \in Paths /\ Parked("marks") \in Paths
           /\ Fits(op.from) /\ Fits(op.to)
  BY Known, MarkPaths DEF RestoreInv, FitInv

LEMMA HeldNext ==
    ASSUME op'.to = op.to, NEW kind \in {"marks", "marks.bak"},
           files'[<<kind, op.to>>] \in Docs, "theirs" \in files'[<<kind, op.to>>]
    PROVE  Holds(op.to)'
  BY DEF Holds, Readable

LEMMA ReadMarksRestore == IInv /\ RestoreInv /\ ReadMarks => RestoreInv'
<1> SUFFICES ASSUME IInv, RestoreInv, ReadMarks PROVE RestoreInv'
  OBVIOUS
<1>1. op.step = "read marks" /\ kept' = kept /\ Untouched /\ op.active = {}
  BY DEF ReadMarks, CardOnly, RestoreInv, MergeInv
<1>2. op \in Ops /\ files' = files
  BY <1>1, MarkKnows DEF Untouched
<1>3. CASE op' = [op EXCEPT !.step = "clips"] \/ op' = [op EXCEPT !.step = "recover"]
  <2>1. op'.step \in {"clips", "recover"} /\ op'.from = op.from /\ op'.to = op.to
        /\ op'.active = {}
    BY <1>1, <1>2, <1>3 DEF Ops
  <2>2. op'.step \notin MarkSteps \cup {"abandon marks", "return marks", "tidy marks"}
    BY <2>1 DEF MarkSteps
  <2>3. QED
    BY <1>1, <1>2, <2>1, <2>2, Elsewhere
<1>4. CASE op' = [op EXCEPT !.step = "clean marks", !.active = {"marks"}]
  <2>1. op'.step = "clean marks" /\ op'.from = op.from /\ op'.to = op.to
    BY <1>2, <1>4 DEF Ops
  <2>2. FitInv' /\ TheirsKept'
    BY <1>1, <1>2 DEF RestoreInv, FitInv, Fits, TheirsKept, Readable
  <2>3. MergeInv'
    BY <1>1, <1>2, <2>1 DEF RestoreInv, MergeInv, Exists, To, Parked
  <2>4. op'.step \in Unmerged \ {"tidy marks"}
    BY <2>1 DEF Unmerged, MarkSteps
  <2>5. QED
    BY <2>2, <2>3, <2>4, PreparesMarks
<1>5. QED
  BY <1>3, <1>4 DEF ReadMarks

LEMMA CleanMarksRestore == ~CardFails /\ IInv /\ RestoreInv /\ CleanMarks => RestoreInv'
<1> SUFFICES ASSUME ~CardFails, IInv, RestoreInv, CleanMarks PROVE RestoreInv'
  OBVIOUS
<1> DEFINE mark == To("marks")
           bak == Parked("marks")
<1>1. op.step = "clean marks" /\ kept' = kept /\ files[mark] # Torn
      /\ (~Exists(mark) => ~Exists(bak)) /\ ~ClearFails(bak)
  BY NeverFails DEF CleanMarks, CardOnly, RestoreInv, MergeInv, IInv, CopyInv
<1>2. op \in Ops /\ CardType /\ op.to \in Names /\ mark = <<"marks", op.to>>
      /\ bak = <<"marks.bak", op.to>> /\ mark \in Paths /\ bak \in Paths /\ Fits(op.to)
  BY MarkKnows
<1>3. \/ Exists(mark) /\ Cleared(bak) /\ Goto("park marks")
      \/ ~Exists(mark) /\ Untouched /\ Goto("open marks")
  BY <1>1 DEF CleanMarks, Clear
<1>4. op'.step \in {"park marks", "open marks"} /\ op'.from = op.from /\ op'.to = op.to
  BY <1>2, <1>3, GoesAloof DEF Aloof
<1>5. mark' = mark /\ bak' = bak
  BY <1>4 DEF To, Parked
<1> HIDE DEF mark, bak
<1>6. /\ Touches({mark, bak}) /\ files'[mark] = files[mark]
      /\ files'[bak] \in {files[bak], Absent} /\ files'[bak] = Absent
  BY <1>1, <1>2, <1>3, MarkCard DEF Exists
<1>7. Fits(op.to)'
  BY <1>2, <1>4, <1>6 DEF Fits
<1>8. Holds(op.to) => Holds(op.to)'
  <2>1. CASE Exists(mark)
    <3>1. files[mark] \in Docs
      BY <1>1, <1>2, <2>1, Whole
    <3>2. Holds(op.to) => "theirs" \in files[mark]
      BY <1>2, <3>1, Whole DEF Holds, Fits
    <3>3. QED
      BY <1>2, <1>4, <1>6, <3>1, <3>2, HeldNext
  <2>2. CASE ~Exists(mark)
    BY <1>1, <1>2, <2>2 DEF Holds, Readable, Exists
  <2>3. QED
    BY <2>1, <2>2
<1>9. FitInv' /\ TheirsKept'
  BY <1>1, <1>2, <1>4, <1>6, <1>7, <1>8, OneNameChanges DEF Fits, Holds, Readable
<1>10. MergeInv'
  <2>1. CASE Exists(mark) /\ Goto("park marks")
    <3>1. op'.step = "park marks"
      BY <1>2, <2>1, GoesAloof DEF Aloof
    <3>2. Exists(To("marks"))' /\ ~Exists(Parked("marks"))'
      BY <1>5, <1>6, <2>1 DEF Exists, mark, bak
    <3>3. QED
      BY <3>1, <3>2 DEF MergeInv
  <2>2. CASE ~Exists(mark) /\ Goto("open marks")
    <3>1. op'.step = "open marks"
      BY <1>2, <2>2, GoesAloof DEF Aloof
    <3>2. files'[To("marks")'] = Absent /\ ~Exists(Parked("marks"))'
      BY <1>5, <1>6, <2>2 DEF Exists, mark, bak
    <3>3. QED
      BY <3>1, <3>2 DEF MergeInv
  <2>3. QED
    BY <1>3, <2>1, <2>2
<1>11. op'.step \in Unmerged \ {"tidy marks"}
  BY <1>4 DEF Unmerged, MarkSteps
<1>12. QED
  BY <1>9, <1>10, <1>11, PreparesMarks

LEMMA ParkMarksRestore == ~CardFails /\ IInv /\ RestoreInv /\ ParkMarks => RestoreInv'
<1> SUFFICES ASSUME ~CardFails, IInv, RestoreInv, ParkMarks PROVE RestoreInv'
  OBVIOUS
<1> DEFINE mark == To("marks")
           bak == Parked("marks")
<1>1. op.step = "park marks" /\ kept' = kept /\ Movable(mark, bak) /\ ~RenameFails(mark, bak)
  BY NeverFails DEF ParkMarks, CardOnly, RestoreInv, MergeInv, Movable
<1>2. op \in Ops /\ CardType /\ op.to \in Names /\ mark = <<"marks", op.to>>
      /\ bak = <<"marks.bak", op.to>> /\ mark \in Paths /\ bak \in Paths
  BY MarkKnows
<1>3. Renamed(mark, bak) /\ op' = [op EXCEPT !.step = "open marks", !.parked = {"marks"}]
  BY <1>1 DEF ParkMarks, Move
<1>4. op'.step = "open marks" /\ op'.from = op.from /\ op'.to = op.to
      /\ op'.parked = {"marks"}
  BY <1>2, <1>3 DEF Ops
<1>5. mark' = mark /\ bak' = bak
  BY <1>4 DEF To, Parked
<1> HIDE DEF mark, bak
<1>6. Touches({mark, bak}) /\ files'[mark] = Absent /\ files'[bak] = files[mark]
      /\ ~Exists(bak)
  BY <1>1, <1>2, <1>3, MarkCard, ZenonT(40) DEF Movable
<1>7. Fits(op.to)'
  BY <1>2, <1>4, <1>6 DEF Fits
<1>8. Holds(op.to) => Holds(op.to)'
  <2>1. Holds(op.to) => files[mark] \in Docs /\ "theirs" \in files[mark]
    BY <1>2, <1>6, Whole DEF Holds, Readable, Exists
  <2>2. QED
    BY <1>2, <1>4, <1>6, <2>1, HeldNext
<1>9. FitInv' /\ TheirsKept'
  BY <1>1, <1>2, <1>4, <1>6, <1>7, <1>8, OneNameChanges DEF Fits, Holds, Readable
<1>10. MergeInv'
  <2>1. files'[To("marks")'] = Absent
    BY <1>5, <1>6 DEF mark
  <2>2. QED
    BY <1>4, <2>1 DEF MergeInv
<1>11. op'.step \in Unmerged \ {"tidy marks"}
  BY <1>4 DEF Unmerged, MarkSteps
<1>12. QED
  BY <1>9, <1>10, <1>11, PreparesMarks

LEMMA OpenMarksRestore == ~CardFails /\ IInv /\ RestoreInv /\ OpenMarks => RestoreInv'
<1> SUFFICES ASSUME ~CardFails, IInv, RestoreInv, OpenMarks PROVE RestoreInv'
  OBVIOUS
<1> DEFINE mark == To("marks")
           bak == Parked("marks")
<1>1. op.step = "open marks" /\ kept' = kept /\ files[mark] \in {Absent, Torn} /\ ~Fails
      /\ ("marks" \notin op.parked => ~Exists(bak))
  BY NeverFails DEF OpenMarks, CardOnly, RestoreInv, MergeInv
<1>2. op \in Ops /\ CardType /\ op.to \in Names /\ mark = <<"marks", op.to>>
      /\ bak = <<"marks.bak", op.to>> /\ mark \in Paths /\ bak \in Paths
  BY MarkKnows
<1>3. Opened(mark) /\ Goto("write marks") /\ "write marks" \in Steps
  BY <1>1 DEF OpenMarks, Steps
<1>4. On("write marks")
  BY <1>2, <1>3, Going DEF Goto
<1>5. op'.step = "write marks" /\ op'.from = op.from /\ op'.to = op.to
      /\ op'.parked = op.parked
  BY <1>4 DEF On
<1>6. mark' = mark /\ bak' = bak
  BY <1>5 DEF To, Parked
<1> HIDE DEF mark, bak
<1>7. Touches({mark, bak}) /\ files'[mark] = Torn /\ files'[bak] = files[bak]
  BY <1>2, <1>3, MarkCard, ZenonT(40)
<1>8. Fits(op.to)'
  BY <1>2, <1>5, <1>7 DEF Fits
<1>9. Holds(op.to) => Holds(op.to)'
  <2>1. Holds(op.to) => files[bak] \in Docs /\ "theirs" \in files[bak]
    BY <1>1, <1>2, Whole DEF Holds, Readable
  <2>2. QED
    BY <1>2, <1>5, <1>7, <2>1, HeldNext
<1>10. FitInv' /\ TheirsKept'
  BY <1>1, <1>2, <1>5, <1>7, <1>8, <1>9, OneNameChanges DEF Fits, Holds, Readable
<1>11. MergeInv'
  <2>1. files'[To("marks")'] = Torn
    BY <1>6, <1>7 DEF mark
  <2>2. "marks" \notin op'.parked => ~Exists(Parked("marks"))'
    BY <1>1, <1>5, <1>6, <1>7 DEF bak, Exists
  <2>3. QED
    BY <1>5, <2>1, <2>2 DEF MergeInv
<1>12. op'.step \in Unmerged \ {"tidy marks"}
  BY <1>5 DEF Unmerged, MarkSteps
<1>13. QED
  BY <1>10, <1>11, <1>12, PreparesMarks

LEMMA WriteMarksRestore == ~CardFails /\ IInv /\ RestoreInv /\ WriteMarks => RestoreInv'
<1> SUFFICES ASSUME ~CardFails, IInv, RestoreInv, WriteMarks PROVE RestoreInv'
  OBVIOUS
<1> DEFINE mark == To("marks")
           bak == Parked("marks")
           both == files[From("marks")] \cup SetAside
<1>1. op.step = "write marks" /\ files[mark] \in {Absent, Torn} /\ ~Fails
      /\ ("marks" \notin op.parked => ~Exists(bak))
      /\ files[From("marks")] \in Docs /\ ("marks" \in op.parked => files[bak] \in Docs)
  BY NeverFails DEF WriteMarks, RestoreInv, MergeInv, IInv, CopyInv
<1>2. op \in Ops /\ CardType /\ op.to \in Names /\ mark = <<"marks", op.to>>
      /\ bak = <<"marks.bak", op.to>> /\ mark \in Paths /\ bak \in Paths
      /\ From("marks") = <<"marks", op.from>> /\ From("marks") \in Paths /\ op.from # op.to
  BY MarkKnows
<1>3. Written(mark, both) /\ kept' = kept /\ Goto("clips") /\ "clips" \in Steps
  BY <1>1 DEF WriteMarks, Steps, SetAside
<1>4. On("clips")
  BY <1>2, <1>3, Going DEF Goto
<1>5. op'.step = "clips" /\ op'.from = op.from /\ op'.to = op.to /\ op'.parked = op.parked
  BY <1>4 DEF On
<1>6. mark' = mark /\ bak' = bak /\ From("marks")' = From("marks")
  BY <1>5 DEF To, Parked, From
<1>7. both \in Docs
  BY <1>1, DocsAssumption DEF DocsAssumption, SetAside
<1>8. Exists(bak) => "marks" \in op.parked /\ files[bak] \subseteq both
  BY <1>1 DEF SetAside
<1>9. files'[From("marks")] = files[From("marks")]
  BY <1>2, <1>3 DEF Written, CardType
<1> HIDE DEF mark, bak, both
<1>10. Touches({mark, bak}) /\ files'[mark] = both /\ files'[bak] = files[bak]
  BY <1>2, <1>3, <1>7, MarkCard, SMTT(30)
<1>11. Fits(op.to)'
  BY <1>2, <1>5, <1>8, <1>10 DEF Fits, Exists
<1>12. Holds(op.to) => Holds(op.to)'
  <2>1. Holds(op.to) => files[bak] \in Docs /\ "theirs" \in files[bak]
    BY <1>1, <1>2, Whole DEF Holds, Readable
  <2>2. QED
    BY <1>2, <1>5, <1>10, <2>1, HeldNext
<1>13. FitInv' /\ TheirsKept'
  BY <1>2, <1>3, <1>5, <1>10, <1>11, <1>12, OneNameChanges DEF Fits, Holds, Readable
<1>14. MergeInv'
  BY <1>5 DEF MergeInv
<1>15. Merged'
  <2>1. files'[From("marks")'] \in Docs
    BY <1>1, <1>6, <1>9
  <2>2. "marks" \in op'.parked => files'[Parked("marks")'] \in Docs
    BY <1>1, <1>5, <1>6, <1>10 DEF bak
  <2>3. SetAside' = SetAside
    BY <1>5, <1>6, <1>10 DEF SetAside, bak
  <2>4. files'[To("marks")'] = files'[From("marks")'] \cup SetAside'
    BY <1>6, <1>9, <1>10, <2>3 DEF mark, both
  <2>5. QED
    BY <2>1, <2>2, <2>4 DEF Merged
<1>16. MergedInv'
  BY <1>5, <1>15 DEF MergedInv
<1>17. QED
  BY <1>13, <1>14, <1>16 DEF RestoreInv

LEMMA MergedIsWhole == Merged => files[To("marks")] \in Docs
<1> SUFFICES ASSUME Merged PROVE files[To("marks")] \in Docs
  OBVIOUS
<1>1. files[From("marks")] \in Docs /\ ("marks" \in op.parked => files[Parked("marks")] \in Docs)
  BY DEF Merged
<1>2. files[From("marks")] \cup SetAside \in Docs
  BY <1>1, DocsAssumption DEF DocsAssumption, SetAside
<1>3. QED
  BY <1>2 DEF Merged

\* The bookmarks at the old name go once they are part of those at the new one.
LEMMA CommitMarksRestore ==
    ~CardFails /\ IInv /\ RestoreInv /\ Commit("marks", "commit marks", "tidy marks")
        => RestoreInv'
<1> SUFFICES ASSUME ~CardFails, IInv, RestoreInv, Commit("marks", "commit marks", "tidy marks")
             PROVE  RestoreInv'
  OBVIOUS
<1> DEFINE mark == From("marks")
           bak == <<"marks.bak", op.from>>
           target == To("marks")
<1>1. op.step = "commit marks" /\ kept' = kept /\ Goto("tidy marks") /\ "tidy marks" \in Steps
  BY DEF Commit, CardOnly, Steps
<1>2. op \in Ops /\ CardType /\ op.from \in Names /\ mark = <<"marks", op.from>>
      /\ target = <<"marks", op.to>> /\ mark \in Paths /\ target \in Paths
      /\ op.from # op.to /\ op.to \in Names /\ Fits(op.from)
  BY MarkKnows
<1>3. op'.step = "tidy marks" /\ op'.from = op.from /\ op'.to = op.to
      /\ op'.active = op.active
  BY <1>1, <1>2, Going DEF Goto, On
<1>4. mark' = mark /\ target' = target
  BY <1>3 DEF To, From
<1>5. "marks" \in op.active => files[target] \in Docs /\ files[mark] \subseteq files[target]
  <2>1. op.step \notin Unmerged
    BY <1>1 DEF Unmerged, MarkSteps
  <2>2. "marks" \in op.active => Merged
    BY <2>1 DEF RestoreInv, MergedInv
  <2>3. QED
    BY <2>2, MergedIsWhole DEF Merged
<1>6. IF "marks" \in op.active THEN Cleared(mark) ELSE Untouched
  BY NeverFails DEF Commit
<1> HIDE DEF mark, bak, target
<1>7. Touches({mark, bak}) /\ files'[bak] = files[bak]
      /\ files'[mark] \in {files[mark], Absent}
      /\ ("marks" \notin op.active => files'[mark] = files[mark])
  <2>1. bak = <<"marks.bak", op.from>>
    BY DEF bak
  <2>2. CASE "marks" \in op.active /\ Cleared(mark)
    BY <1>2, <2>1, <2>2, MarkGoes
  <2>3. CASE Untouched
    BY <1>2, <2>1, <2>3, MarkCard
  <2>4. QED
    BY <1>6, <2>2, <2>3
<1>8. files'[target] = files[target]
  BY <1>2, <1>7 DEF Touches, bak
<1>9. Fits(op.from)'
  BY <1>2, <1>3, <1>7 DEF Fits, bak
<1>10. Holds(op.from) => Holds(op.from)' \/ \E other \in Names \ {op.from} : Holds(other)
  <2>1. CASE "marks" \in op.active
    <3>1. files[mark] \in Docs /\ "theirs" \in files[mark] => Holds(op.to)
      BY <1>2, <1>5, <2>1, Whole DEF Holds
    <3>2. files[bak] \in Docs /\ "theirs" \in files[bak] => Holds(op.from)'
      BY <1>3, <1>7 DEF Holds, Readable, bak
    <3>3. bak \in Paths
      BY <1>2 DEF bak, Kinds
    <3>4. Holds(op.from) =>
              \/ files[mark] \in Docs /\ "theirs" \in files[mark]
              \/ files[bak] \in Docs /\ "theirs" \in files[bak]
      BY <1>2, <3>3, Whole DEF Holds, bak
    <3>5. QED
      BY <1>2, <3>1, <3>2, <3>4
  <2>2. CASE "marks" \notin op.active
    BY <1>2, <1>3, <1>7, <2>2 DEF Holds, Readable, bak
  <2>3. QED
    BY <2>1, <2>2
<1>11. FitInv' /\ TheirsKept'
  BY <1>1, <1>2, <1>3, <1>7, <1>9, <1>10, OneNameChanges DEF Fits, Holds, Readable, bak
<1>12. MergeInv'
  BY <1>3 DEF MergeInv
<1>13. MergedInv'
  <2>1. "marks" \in op.active => files'[To("marks")'] \in Docs
    BY <1>4, <1>5, <1>8 DEF target
  <2>2. op'.step \in Unmerged
    BY <1>3 DEF Unmerged
  <2>3. QED
    BY <1>3, <2>1, <2>2 DEF MergedInv
<1>14. QED
  BY <1>11, <1>12, <1>13 DEF RestoreInv

\* The steps at which something of the new name goes or comes back, and after which
\* nothing is merged any more.
LEMMA LeavesMarks ==
    ASSUME IInv, RestoreInv, op'.from = op.from, op'.to = op.to, kept' = kept,
           Touches({To("marks"), Parked("marks")}), Fits(op.to)',
           Holds(op.to) => Holds(op.to)' \/ Holds(op.from),
           op'.step \in {"commit clips", "restore marks", "back cache"}
    PROVE  RestoreInv'
<1>1. op.from \in Names /\ op.to \in Names /\ op.from # op.to
      /\ To("marks") = <<"marks", op.to>> /\ Parked("marks") = <<"marks.bak", op.to>>
  BY MarkKnows
<1>2. Holds(op.to) => Holds(op.to)' \/ \E other \in Names \ {op.to} : Holds(other)
  BY <1>1
<1>3. FitInv' /\ TheirsKept'
  BY <1>1, <1>2, OneNameChanges DEF Fits, Holds, Readable
<1>4. MergeInv'
  BY DEF MergeInv
<1>5. op'.step \in Unmerged \ {"tidy marks"}
  BY DEF Unmerged
<1>6. QED
  BY <1>3, <1>4, <1>5, PreparesMarks

LEMMA TidyMarksRestore ==
    ~CardFails /\ IInv /\ RestoreInv /\ Tidy("marks", "tidy marks", Goto("commit clips"))
        => RestoreInv'
<1> SUFFICES ASSUME ~CardFails, IInv, RestoreInv,
                    Tidy("marks", "tidy marks", Goto("commit clips"))
             PROVE  RestoreInv'
  OBVIOUS
<1> DEFINE mark == To("marks")
           bak == Parked("marks")
<1>1. op.step = "tidy marks" /\ kept' = kept /\ Goto("commit clips")
      /\ ("marks" \in op.active => files[mark] \in Docs)
      /\ IF "marks" \in op.active \cap op.parked THEN Cleared(bak) ELSE Untouched
  BY NeverFails DEF Tidy, CardOnly, RestoreInv, MergedInv
<1>2. op \in Ops /\ CardType /\ op.to \in Names /\ mark = <<"marks", op.to>>
      /\ bak = <<"marks.bak", op.to>> /\ mark \in Paths /\ bak \in Paths /\ Fits(op.to)
  BY MarkKnows
<1>3. op'.step = "commit clips" /\ op'.from = op.from /\ op'.to = op.to
  BY <1>1, <1>2, GoesAloof DEF Aloof
<1> HIDE DEF mark, bak
<1>4. Touches({mark, bak}) /\ files'[mark] = files[mark]
      /\ \/ files'[bak] = files[bak]
         \/ files'[bak] = Absent /\ files[mark] \in Docs
  BY <1>1, <1>2, MarkCard, ZenonT(40)
<1>5. Fits(op.to)'
  BY <1>2, <1>3, <1>4 DEF Fits
<1>6. Holds(op.to) => Holds(op.to)'
  <2>1. CASE files'[bak] = files[bak]
    BY <1>2, <1>3, <1>4, <2>1 DEF Holds, Readable
  <2>2. CASE files[mark] \in Docs
    <3>1. Holds(op.to) => "theirs" \in files[mark]
      BY <1>2, <2>2, Whole DEF Holds, Fits
    <3>2. QED
      BY <1>2, <1>3, <1>4, <2>2, <3>1, HeldNext
  <2>3. QED
    BY <1>4, <2>1, <2>2
<1>7. QED
  BY <1>1, <1>3, <1>4, <1>5, <1>6, LeavesMarks DEF Fits, Holds, Readable, mark, bak

LEMMA DropMarksRestore ==
    ~CardFails /\ IInv /\ RestoreInv
        /\ Drop("marks", "drop marks", "restore marks", "back cache") => RestoreInv'
<1> SUFFICES ASSUME ~CardFails, IInv, RestoreInv,
                    Drop("marks", "drop marks", "restore marks", "back cache")
             PROVE  RestoreInv'
  OBVIOUS
<1> DEFINE mark == To("marks")
           bak == Parked("marks")
<1>1. op.step = "drop marks" /\ kept' = kept
      /\ IF "marks" \in op.active THEN Cleared(mark) /\ Goto("restore marks")
         ELSE Untouched /\ Goto("back cache")
  BY NeverFails DEF Drop, CardOnly
<1>2. op \in Ops /\ CardType /\ op.to \in Names /\ mark = <<"marks", op.to>>
      /\ bak = <<"marks.bak", op.to>> /\ mark \in Paths /\ bak \in Paths /\ Fits(op.to)
      /\ From("marks") = <<"marks", op.from>> /\ From("marks") \in Paths
  BY MarkKnows
<1>3. op'.step \in {"restore marks", "back cache"} /\ op'.from = op.from /\ op'.to = op.to
  BY <1>1, <1>2, GoesAloof DEF Aloof
<1>4. "marks" \in op.active => Merged
  <2>1. op.step \notin Unmerged
    BY <1>1 DEF Unmerged, MarkSteps
  <2>2. QED
    BY <2>1 DEF RestoreInv, MergedInv
<1>5. "marks" \in op.active =>
          /\ files[From("marks")] \in Docs
          /\ \/ files[mark] = files[From("marks")]
             \/ files[bak] \in Docs /\ files[mark] = files[From("marks")] \cup files[bak]
  BY <1>4 DEF Merged, SetAside
<1> HIDE DEF mark, bak
<1>6. Touches({mark, bak}) /\ files'[bak] = files[bak]
      /\ \/ files'[mark] = files[mark]
         \/ files'[mark] = Absent /\ "marks" \in op.active
  <2>1. CASE "marks" \in op.active /\ Cleared(mark)
    BY <1>2, <2>1, MarkGoes
  <2>2. CASE Untouched
    BY <1>2, <2>2, MarkCard
  <2>3. QED
    BY <1>1, <2>1, <2>2
<1>7. Fits(op.to)'
  BY <1>2, <1>3, <1>6 DEF Fits
<1>8. Holds(op.to) => Holds(op.to)' \/ Holds(op.from)
  <2>1. CASE files'[mark] = files[mark]
    BY <1>2, <1>3, <1>6, <2>1 DEF Holds, Readable
  <2>2. CASE "marks" \in op.active
    <3>1. Holds(op.to) => \/ "theirs" \in files[From("marks")]
                          \/ files[bak] \in Docs /\ "theirs" \in files[bak]
      BY <1>2, <1>5, <2>2, Whole DEF Holds
    <3>2. "theirs" \in files[From("marks")] => Holds(op.from)
      BY <1>2, <1>5, <2>2, Whole DEF Holds
    <3>3. files[bak] \in Docs /\ "theirs" \in files[bak] => Holds(op.to)'
      BY <1>2, <1>3, <1>6, HeldNext
    <3>4. QED
      BY <3>1, <3>2, <3>3
  <2>3. QED
    BY <1>6, <2>1, <2>2
<1>9. QED
  BY <1>1, <1>3, <1>6, <1>7, <1>8, LeavesMarks DEF Fits, Holds, Readable, mark, bak

LEMMA RestoreMarksRestore ==
    ~CardFails /\ IInv /\ RestoreInv /\ Restore("marks", "restore marks", "back cache")
        => RestoreInv'
<1> SUFFICES ASSUME ~CardFails, IInv, RestoreInv,
                    Restore("marks", "restore marks", "back cache")
             PROVE  RestoreInv'
  OBVIOUS
<1> DEFINE mark == To("marks")
           bak == Parked("marks")
           over == [op EXCEPT !.step = "back cache", !.active = @ \ {"marks"}]
<1>1. kept' = kept /\ (Renamed(bak, mark) \/ Untouched) /\ (Goto("back cache") \/ op' = over)
  BY NeverFails DEF Restore, CardOnly, Move
<1>2. op \in Ops /\ CardType /\ op.to \in Names /\ mark = <<"marks", op.to>>
      /\ bak = <<"marks.bak", op.to>> /\ mark \in Paths /\ bak \in Paths /\ Fits(op.to)
  BY MarkKnows
<1>3. op'.step = "back cache" /\ op'.from = op.from /\ op'.to = op.to
  BY <1>1, <1>2 DEF Goto, Ops
<1> HIDE DEF mark, bak
<1>4. /\ Touches({mark, bak})
      /\ \/ files'[mark] = files[mark] /\ files'[bak] = files[bak]
         \/ /\ files'[bak] = Absent /\ files'[mark] = files[bak] /\ files[mark] = Absent
  <2>1. CASE Untouched
    BY <1>2, <2>1, MarkCard
  <2>2. CASE Renamed(bak, mark)
    <3>1. files[mark] = Absent
      BY <2>2 DEF Renamed, Movable, Exists
    <3>2. CardType /\ op.to \in Names /\ mark = <<"marks", op.to>>
          /\ bak = <<"marks.bak", op.to>>
      BY <1>2
    <3>3. Touches({mark, bak}) /\ files'[bak] = Absent /\ files'[mark] = files[bak]
      BY <2>2, <3>2, MarkReturns
    <3>4. QED
      BY <3>1, <3>3
  <2>3. QED
    BY <1>1, <2>1, <2>2
<1>5. Fits(op.to)'
  BY <1>2, <1>3, <1>4 DEF Fits
<1>6. Holds(op.to) => Holds(op.to)'
  BY <1>2, <1>3, <1>4 DEF Holds, Readable
<1>7. QED
  BY <1>1, <1>3, <1>4, <1>5, <1>6, LeavesMarks DEF Fits, Holds, Readable, mark, bak

LEMMA BeginRestore == IInv /\ RestoreInv /\ Begin => RestoreInv'
<1> SUFFICES ASSUME IInv, RestoreInv, Begin PROVE RestoreInv'
  OBVIOUS
<1>1. PICK from \in Names, to \in Names :
          op' = [Idle("none", from, to) EXCEPT !.step = "marks", !.open = (openMem = from)]
  BY DEF Begin
<1>2. op'.step = "marks" /\ op'.active = {}
  BY <1>1 DEF Idle
<1>3. files' = files /\ kept' = kept
  BY DEF Begin, Untouched, CardOnly
<1>4. FitInv' /\ TheirsKept'
  BY <1>3 DEF RestoreInv, FitInv, Fits, TheirsKept, Readable
<1>5. MergeInv'
  BY <1>2 DEF MergeInv
<1>6. op'.step \in Unmerged \ {"tidy marks"}
  BY <1>2 DEF Unmerged, MarkSteps
<1>7. QED
  BY <1>4, <1>5, <1>6, PreparesMarks

LEMMA StillRestore == RestoreInv /\ UNCHANGED vars => RestoreInv'
<1> SUFFICES ASSUME RestoreInv, UNCHANGED vars PROVE RestoreInv'
  OBVIOUS
<1>1. UNCHANGED <<files, op, kept>>
  BY DEF vars, cardVars
<1>2. FitInv' /\ TheirsKept'
  BY <1>1 DEF RestoreInv, FitInv, Fits, TheirsKept, Readable
<1>3. MergeInv'
  BY <1>1 DEF RestoreInv, MergeInv, Exists, To, Parked
<1>4. MergedInv'
  BY <1>1 DEF RestoreInv, MergedInv, Merged, SetAside, From, To, Parked
<1>5. QED
  BY <1>2, <1>3, <1>4 DEF RestoreInv

LEMMA StepRestore == ~CardFails /\ IInv /\ RestoreInv /\ [Next]_vars => RestoreInv'
<1> SUFFICES ASSUME ~CardFails, IInv, RestoreInv, [Next]_vars PROVE RestoreInv'
  OBVIOUS
<1>1. CASE BeginMarks
  BY <1>1, RecoverMarksRestore, ReadMarksRestore, CleanMarksRestore, ParkMarksRestore,
     OpenMarksRestore, WriteMarksRestore DEF BeginMarks
<1>2. CASE Abandon
  <2>1. op.step \notin {"abandon marks", "return marks"}
    BY DEF RestoreInv, MergeInv
  <2>2. QED
    BY <1>2, <2>1, ClipsBackRestore DEF Abandon, Drop, Restore
<1>3. CASE Migrate
  BY <1>3, ReferencesRestore, CommitMarksRestore, TidyMarksRestore, EndsRestore
     DEF Migrate, CommitMetadata
<1>4. CASE GoBack
  BY <1>4, ReferencesRestore, ClipsBackRestore, DropMarksRestore, RestoreMarksRestore,
     EndsRestore DEF GoBack, RollBackPrepared
<1>5. CASE Begin \/ BeginClips \/ PowerLoss \/ UNCHANGED vars
  BY <1>5, BeginRestore, ClipsRestore, EndsRestore, StillRestore
<1>6. QED
  BY <1>1, <1>2, <1>3, <1>4, <1>5 DEF Next

\* Losses of power alone, however many and wherever they strike, never cost the other
\* book its bookmarks: they are readable at a name or put aside there.
THEOREM PowerLossKeepsBoth == ASSUME ~CardFails PROVE Spec => []BothCanBeRestored
<1>1. Init => IInv /\ RestoreInv
  BY InitIInv, InitRestore
<1>2. (IInv /\ RestoreInv) /\ [Next]_vars => (IInv /\ RestoreInv)'
  BY StepIInv, StepRestore
<1>3. IInv /\ RestoreInv => BothCanBeRestored
  BY DEF RestoreInv, TheirsKept, BothCanBeRestored
<1>4. QED
  BY <1>1, <1>2, <1>3, PTL DEF Spec
=============================================================================
