----------------------------- MODULE BookRename -----------------------------
(***************************************************************************)
(* A book renamed from the file browser, with what the reader keeps for it *)
(* (src/src/util/BookMoveUtils.cpp: migrateRenamedBookState(), and the     *)
(* rename migrations of src/src/BookmarkStore.cpp and ClippingStore.cpp).  *)
(*                                                                         *)
(*  - The bookmarks and clippings of a book are files named after its path,*)
(*    and so is the cache directory with its reading position.  Another    *)
(*    book, which is gone, may have left such files at the new name.       *)
(*  - What these files hold is a set of owners: "mine" stands for all that *)
(*    the renamed book had, "theirs" for what the other one left.          *)
(*  - A book is an EPUB, and the legacy bookmark files are part of the     *)
(*    current ones.  Bookmarks that exceed MAX_BOOKMARKS are not modelled. *)
(*  - RECENT_BOOKS.updatePath() saves all or nothing: RecentBooksStore.tla.*)
(***************************************************************************)
EXTENDS SdCard

CONSTANTS
    NameA, NameB,   \* two paths of the book file
    None            \* no path

Names == {NameA, NameB}

Kinds == {"book", "cache", "marks", "marks.bak",        \* .rename.bak
          "clips", "clips.bak", "clips.tmp", "clips.old"}  \* .rename.bak, .tmp, .bak

ASSUME NameAssumption == NameA # NameB /\ None \notin Names
ASSUME PathAssumption == Paths = Kinds \X Names
ASSUME DocsAssumption == Docs = {{"mine"}, {"theirs"}, {"mine", "theirs"}}

VARIABLES
    op,         \* the rename that is going on, or what the last one returned
    recent,     \* the path the book has in the recent books
    openMem,    \* APP_STATE.openEpubPath
    openCard,   \* what state.json says of it
    kept,       \* history: what has to be kept, see Init
    cut         \* history: the names whose bookmarks were last written short

cardVars == <<files, faults>>
refs == <<recent, openMem, openCard>>
history == <<kept, cut>>
vars == <<cardVars, op, refs, history>>

Migrations == {"marks", "clips"}
Moved == {"cache", "book", "recent", "open"}
Results == {"none", "Success", "RolledBack", "KeepRenamed"}

Steps ==
    {"idle",
     "marks", "read marks", "clean marks", "park marks", "open marks", "write marks",
     "abandon marks", "return marks",
     "clips", "read clips", "settle clips", "clean clips", "park clips",
     "open clips", "write clips", "publish clips", "discard clips",
     "abandon clips", "return clips",
     "move cache", "move book", "move recent", "move open",
     "commit marks", "tidy marks", "commit clips", "tidy clips",
     "recover", "back open", "back recent", "again", "keep recent", "keep open",
     "drop clips", "restore clips", "drop marks", "restore marks", "back cache"}

\* No rename goes on.
Idle(result, from, to) ==
    [step |-> "idle", from |-> from, to |-> to, active |-> {}, parked |-> {},
     moved |-> {}, open |-> FALSE, result |-> result]

TypeOK ==
    /\ CardType
    /\ op \in [step : Steps, from : Names, to : Names,
               active : SUBSET Migrations, parked : SUBSET Migrations,
               moved : SUBSET Moved, open : BOOLEAN, result : Results]
    /\ recent \in Names \cup {None}
    /\ openMem \in Names \cup {None} /\ openCard \in Names \cup {None}
    /\ kept \subseteq Migrations \cup {"theirs"} /\ cut \subseteq Names

\* The book and some of the files it may have, and what another book left at the
\* new name, an interrupted save of its clippings included.  The bookmarks and
\* clippings of the one and the bookmarks of the other are to be kept.
Init ==
    /\ \E mine \in SUBSET {"cache", "marks", "clips"},
          theirs \in SUBSET {"cache", "marks", "clips", "clips.old"} :
          /\ files = [path \in Paths |->
                IF path \in ({"book"} \cup mine) \X {NameA} THEN {"mine"}
                ELSE IF path \in theirs \X {NameB} THEN {"theirs"} ELSE Absent]
          /\ kept = (mine \cap Migrations)
                    \cup (IF "marks" \in theirs THEN {"theirs"} ELSE {})
    /\ cut = {}
    /\ faults = 0
    /\ op = Idle("none", NameA, NameB)
    /\ recent \in {None, NameA} /\ openMem \in {None, NameA}
    /\ openCard = openMem

From(kind) == <<kind, op.from>>
To(kind) == <<kind, op.to>>
Parked(kind) == <<IF kind = "marks" THEN "marks.bak" ELSE "clips.bak", op.to>>

Goto(step) == op' = [op EXCEPT !.step = step]
Return(result) == op' = Idle(result, op.from, op.to)

\* A rename whose failure is an error.
Move(from, to, good, bad) ==
    \/ Renamed(from, to) /\ good
    \/ RenameFails(from, to) /\ bad

\* A file that is in the way is removed.
Clear(path, good, bad) ==
    \/ Cleared(path) /\ good
    \/ ClearFails(path) /\ bad

CardOnly == UNCHANGED <<refs, history>>

\* FileBrowserActivity::renameFile() asks for it when the new name is free.
Begin ==
    /\ op.step = "idle"
    /\ \E from \in Names, to \in Names :
          /\ Exists(<<"book", from>>) /\ ~Exists(<<"book", to>>)
          /\ op' = [Idle("none", from, to) EXCEPT !.step = "marks",
                                                  !.open = (openMem = from)]
    /\ Untouched /\ CardOnly

-----------------------------------------------------------------------------
(* BookmarkStore::beginRenameMigration().                                  *)

\* What an interrupted rename put aside comes back.
RecoverParked(kind, next) ==
    /\ op.step = kind
    /\ IF ~Exists(To(kind)) /\ Exists(Parked(kind))
       THEN Move(Parked(kind), To(kind), Goto(next), Goto("recover"))
       ELSE Untouched /\ Goto(next)
    /\ CardOnly

\* Neither side may be unreadable.
ReadMarks ==
    /\ op.step = "read marks"
    /\ op' = IF ~Exists(From("marks")) THEN [op EXCEPT !.step = "clips"]
             ELSE IF Torn \in {files[From("marks")], files[To("marks")]}
             THEN [op EXCEPT !.step = "recover"]
             ELSE [op EXCEPT !.step = "clean marks", !.active = {"marks"}]
    /\ Untouched /\ CardOnly

CleanMarks ==
    /\ op.step = "clean marks"
    /\ IF Exists(To("marks"))
       THEN Clear(Parked("marks"), Goto("park marks"), Goto("abandon marks"))
       ELSE Untouched /\ Goto("open marks")
    /\ CardOnly

ParkMarks ==
    /\ op.step = "park marks"
    /\ Move(To("marks"), Parked("marks"),
            op' = [op EXCEPT !.step = "open marks", !.parked = {"marks"}],
            Goto("abandon marks"))
    /\ CardOnly

OpenMarks ==
    /\ op.step = "open marks"
    /\ \/ Opened(To("marks")) /\ Goto("write marks")
       \/ Fails /\ Goto("abandon marks")
    /\ CardOnly

\* mutant: the bookmarks of the other book only
WriteMarksOthersOnly ==
    /\ op.step = "write marks"
    /\ Written(To("marks"), IF "marks" \in op.parked THEN files[Parked("marks")] ELSE {})
    /\ Goto("clips") /\ CardOnly

\* The bookmarks of both books.  Whether they could be written is not looked at:
\* a write that ends short, on a full card say, is a success too.
WriteMarks ==
    /\ op.step = "write marks"
    /\ \/ /\ Written(To("marks"), files[From("marks")] \cup
                IF "marks" \in op.parked THEN files[Parked("marks")] ELSE {})
          /\ cut' = cut \ {op.to}
       \/ Fails /\ cut' = cut \cup {op.to}
    /\ Goto("clips")
    /\ UNCHANGED <<refs, kept>>

-----------------------------------------------------------------------------
(* ClippingStore::beginRenameMigration().                                  *)

ReadClips ==
    /\ op.step = "read clips"
    /\ Goto(IF ~Exists(From("clips")) THEN "move cache"
            ELSE IF files[From("clips")] = Torn THEN "recover" ELSE "settle clips")
    /\ Untouched /\ CardOnly

\* What an interrupted save of the other book's clippings left is recovered, or
\* removed as stale.
SettleClips ==
    /\ op.step = "settle clips"
    /\ IF Exists(To("clips"))
       THEN Clear(To("clips.old"), Goto("clean clips"), Goto("recover"))
       ELSE IF Exists(To("clips.old"))
       THEN Move(To("clips.old"), To("clips"), Goto("clean clips"), Goto("recover"))
       ELSE Untouched /\ Goto("clean clips")
    /\ CardOnly

CleanClips ==
    /\ op.step = "clean clips"
    /\ Clear(Parked("clips"), Goto("park clips"), Goto("recover"))
    /\ CardOnly

ParkClips ==
    /\ op.step = "park clips"
    /\ LET active == [op EXCEPT !.step = "open clips", !.active = @ \cup {"clips"}]
       IN  IF Exists(To("clips"))
           THEN Move(To("clips"), Parked("clips"),
                     op' = [active EXCEPT !.parked = @ \cup {"clips"}], Goto("recover"))
           ELSE Untouched /\ op' = active
    /\ CardOnly

\* writeToFile(), from the book's clippings to a temporary file that replaces
\* nothing.
OpenClips ==
    /\ op.step = "open clips"
    /\ \/ Opened(To("clips.tmp")) /\ Goto("write clips")
       \/ Fails /\ Goto("abandon clips")
    /\ CardOnly

WriteClips ==
    /\ op.step = "write clips"
    /\ \/ Written(To("clips.tmp"), files[From("clips")]) /\ Goto("publish clips")
       \/ Fails /\ Goto("discard clips")
    /\ CardOnly

PublishClips ==
    /\ op.step = "publish clips"
    /\ Move(To("clips.tmp"), To("clips"), Goto("move cache"), Goto("discard clips"))
    /\ CardOnly

\* mutant: the rename goes on without them
DiscardClipsAndGoOn ==
    /\ op.step = "discard clips"
    /\ MayRemove(To("clips.tmp")) /\ Goto("move cache")
    /\ CardOnly

DiscardClips ==
    /\ op.step = "discard clips"
    /\ MayRemove(To("clips.tmp")) /\ Goto("abandon clips")
    /\ CardOnly

-----------------------------------------------------------------------------
(* rollbackRenameMigration() of either store, called where its begin failed *)
(* and again by rollbackPreparedStorage().                                  *)

Drop(kind, here, restore, next) ==
    /\ op.step = here
    /\ IF kind \in op.active
       THEN MayRemove(To(kind)) /\ Goto(restore)
       ELSE Untouched /\ Goto(next)
    /\ CardOnly

\* The migration is over only if both of its steps succeeded.
Restore(kind, here, next) ==
    LET over == [op EXCEPT !.step = next, !.active = @ \ {kind}]
    IN  /\ op.step = here
        /\ IF kind \in op.parked
           THEN Move(Parked(kind), To(kind), op' = over, Goto(next))
           ELSE Untouched /\ (IF Exists(To(kind)) THEN Goto(next) ELSE op' = over)
        /\ CardOnly

Abandon ==
    \/ Drop("marks", "abandon marks", "return marks", "recover")
    \/ Restore("marks", "return marks", "recover")
    \/ Drop("clips", "abandon clips", "return clips", "recover")
    \/ Restore("clips", "return clips", "recover")

RollBackPrepared ==
    \/ Drop("clips", "drop clips", "restore clips", "drop marks")
    \/ Restore("clips", "restore clips", "drop marks")
    \/ Drop("marks", "drop marks", "restore marks", "back cache")
    \/ Restore("marks", "restore marks", "back cache")

\* mutant: the cache stays where it is
BackCacheStays ==
    /\ op.step = "back cache"
    /\ Return("RolledBack")
    /\ Untouched /\ CardOnly

BackCache ==
    /\ op.step = "back cache"
    /\ IF "cache" \in op.moved /\ Exists(To("cache"))
       THEN MayRename(To("cache"), From("cache"))
       ELSE Untouched
    /\ Return("RolledBack")
    /\ CardOnly

-----------------------------------------------------------------------------
(* migrateRenamedBookState() itself.                                       *)

MoveCache ==
    /\ op.step = "move cache"
    /\ IF Exists(From("cache"))
       THEN Move(From("cache"), To("cache"),
                 op' = [op EXCEPT !.step = "move book", !.moved = {"cache"}],
                 Goto("recover"))
       ELSE Untouched /\ Goto("move book")
    /\ CardOnly

MoveBook ==
    /\ op.step = "move book"
    /\ Move(From("book"), To("book"),
            op' = [op EXCEPT !.step = "move recent", !.moved = @ \cup {"book"}],
            Goto("recover"))
    /\ CardOnly

\* RECENT_BOOKS.updatePath(): a book that is not in the list is no failure.
UpdatePath(old, new, good, bad) ==
    /\ \/ recent' = (IF recent = old THEN new ELSE recent) /\ Unharmed /\ good
       \/ recent = old /\ CardFails /\ Fault /\ UNCHANGED recent /\ bad
    /\ UNCHANGED <<files, openMem, openCard, history>>

\* APP_STATE.openEpubPath is set and saved; a write that fails leaves nothing
\* that can be read, or what was there.
SaveOpenPath(path, good, bad) ==
    /\ openMem' = path
    /\ \/ openCard' = path /\ Unharmed /\ good
       \/ openCard' \in {openCard, None} /\ CardFails /\ Fault /\ bad
    /\ UNCHANGED <<files, recent, history>>

MoveRecent ==
    /\ op.step = "move recent"
    /\ UpdatePath(op.from, op.to,
                  op' = [op EXCEPT !.step = "move open", !.moved = @ \cup {"recent"}],
                  Goto("recover"))

MoveOpen ==
    /\ op.step = "move open"
    /\ IF op.open
       THEN SaveOpenPath(op.to,
                op' = [op EXCEPT !.step = "commit marks", !.moved = @ \cup {"open"},
                                 !.result = "Success"],
                op' = [op EXCEPT !.step = "recover", !.moved = @ \cup {"open"}])
       ELSE /\ op' = [op EXCEPT !.step = "commit marks", !.result = "Success"]
            /\ Untouched /\ CardOnly

\* commitRenameMigration(): the source, then what was put aside; a failure is
\* only logged.
Commit(kind, here, next) ==
    /\ op.step = here
    /\ IF kind \in op.active THEN MayRemove(From(kind)) ELSE Untouched
    /\ Goto(next)
    /\ CardOnly

Tidy(kind, here, then) ==
    /\ op.step = here
    /\ IF kind \in op.active \cap op.parked THEN MayRemove(Parked(kind)) ELSE Untouched
    /\ then
    /\ CardOnly

CommitMetadata ==
    \/ Commit("marks", "commit marks", "tidy marks")
    \/ Tidy("marks", "tidy marks", Goto("commit clips"))
    \/ Commit("clips", "commit clips", "tidy clips")
    \/ Tidy("clips", "tidy clips", Return(op.result))

\* recover(): a book that has moved is moved back, or else kept.
Recover ==
    /\ op.step = "recover"
    /\ IF "book" \in op.moved
       THEN Move(To("book"), From("book"),
                 op' = [op EXCEPT !.step = "back open", !.moved = @ \ {"book"}],
                 Goto("keep recent"))
       ELSE Untouched /\ Goto("drop clips")
    /\ CardOnly

\* rollbackMovedReferences().
BackOpen ==
    /\ op.step = "back open"
    /\ IF "open" \in op.moved
       THEN SaveOpenPath(op.from,
                op' = [op EXCEPT !.step = "back recent", !.moved = @ \ {"open"}],
                Goto("back recent"))
       ELSE Goto("back recent") /\ Untouched /\ CardOnly

BackRecent ==
    LET next(moved) == [op EXCEPT !.moved = moved,
            !.step = IF moved \cap {"open", "recent"} = {} THEN "drop clips" ELSE "again"]
    IN  /\ op.step = "back recent"
        /\ IF "recent" \in op.moved
           THEN UpdatePath(op.to, op.from, op' = next(op.moved \ {"recent"}),
                           op' = next(op.moved))
           ELSE op' = next(op.moved) /\ Untouched /\ CardOnly

\* mutant: the name is taken to be the new one again, whatever became of it
MoveAgainUnchecked ==
    /\ op.step = "again"
    /\ MayRename(From("book"), To("book"))
    /\ Goto("keep recent")
    /\ CardOnly

\* The references could not all be moved back: the new name after all.
MoveAgain ==
    /\ op.step = "again"
    /\ Move(From("book"), To("book"),
            op' = [op EXCEPT !.step = "keep recent", !.moved = @ \cup {"book"}],
            Goto("drop clips"))
    /\ CardOnly

\* keepRenamed().
KeepRecent ==
    /\ op.step = "keep recent"
    /\ UpdatePath(op.from, op.to, Goto("keep open"), Goto("keep open"))

KeepOpen ==
    /\ op.step = "keep open"
    /\ LET commit == op' = [op EXCEPT !.step = "commit marks", !.result = "KeepRenamed"]
       IN  IF op.open THEN SaveOpenPath(op.to, commit, commit)
           ELSE commit /\ Untouched /\ CardOnly

-----------------------------------------------------------------------------
\* The list in memory and on the card are one; a state file may be cut short.
PowerLoss ==
    /\ PowerFails
    /\ op' = Idle("none", op.from, op.to)
    /\ openCard' \in {openCard} \cup
          (IF op.step \in {"move open", "back open", "keep open"} THEN {None} ELSE {})
    /\ openMem' = openCard'
    /\ UNCHANGED <<recent, history>>

BeginMarks ==
    \/ RecoverParked("marks", "read marks") \/ ReadMarks \/ CleanMarks
    \/ ParkMarks \/ OpenMarks \/ WriteMarks

BeginClips ==
    \/ RecoverParked("clips", "read clips") \/ ReadClips \/ SettleClips
    \/ CleanClips \/ ParkClips \/ OpenClips \/ WriteClips \/ PublishClips
    \/ DiscardClips

Migrate == MoveCache \/ MoveBook \/ MoveRecent \/ MoveOpen \/ CommitMetadata

GoBack ==
    \/ Recover \/ BackOpen \/ BackRecent \/ MoveAgain \/ KeepRecent \/ KeepOpen
    \/ RollBackPrepared \/ BackCache

Next ==
    \/ Begin \/ BeginMarks \/ BeginClips \/ Abandon
    \/ Migrate \/ GoBack
    \/ PowerLoss

Spec == Init /\ [][Next]_vars

-----------------------------------------------------------------------------
(* Properties.                                                             *)

BookName == CHOOSE name \in Names : Exists(<<"book", name>>)

Readable(path, owner) == files[path] \notin {Absent, Torn} /\ owner \in files[path]

\* What stands for the bookmarks there is a file whose write ended short.
Short(name) == name \in cut /\ files[<<"marks", name>>] = Torn

\* "Until the physical rename succeeds, the old book and its source metadata
\* remain intact; after it succeeds, the new-path metadata is already
\* discoverable" (src/src/util/BookMoveUtils.cpp:164): at every moment, and
\* whatever fails or is cut off, the bookmarks and clippings the book had are
\* readable at the name it has then.  One failure is excepted, for which the code
\* does not keep the promise: when the bookmarks' write at the new name ends
\* short, nothing looks at it, the book moves to the short file and the commit
\* deletes the old one.
MetadataFollowsBook ==
    \E name \in Names :
        /\ Exists(<<"book", name>>)
        /\ \A kind \in kept \cap Migrations :
              Readable(<<kind, name>>, "mine") \/ (kind = "marks" /\ Short(name))

\* What the file browser is told is where the book is.
ResultTellsPlace ==
    op.step = "idle" =>
        /\ op.result \in {"Success", "KeepRenamed"} => BookName = op.to
        /\ op.result = "RolledBack" => BookName = op.from

\* One failure, wherever it strikes, is undone or got over: the cache, the
\* recent book and the book to open again go with the file.
OneFailureIsUndone ==
    op.result # "none" /\ op.step = "idle" /\ faults < 2 =>
        /\ {recent, openMem, openCard} \subseteq {BookName, None}
        /\ \A name \in Names \ {BookName} : files[<<"cache", name>>] # {"mine"}

\* "Source files and destination backups remain in place until commit, so a later
\* failure can restore both logical books" (src/src/BookmarkStore.h:81): the
\* bookmarks of the other book are somewhere, a file whose write ended short
\* excepted as above.
BothCanBeRestored ==
    "theirs" \in kept =>
        \E name \in Names, kind \in {"marks", "marks.bak"} :
            Readable(<<kind, name>>, "theirs") \/ Short(name)
=============================================================================
