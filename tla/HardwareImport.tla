--------------------------- MODULE HardwareImport ---------------------------
(***************************************************************************)
(* The import of records from a file. An administrator stages the file and *)
(* sees what each row would do; later he commits rows of it, under a key   *)
(* that names his choice. The rows are written in chunks, one transaction  *)
(* each, and a commit that ends between two chunks is resumed by sending   *)
(* it again. Meanwhile records change: HardwareRegistry.                   *)
(*                                                                         *)
(* One file, of one administrator, with at most one row for a device. The  *)
(* reports of a device are left out here: they do to a record what         *)
(* SessionConflict does.                                                   *)
(* Staging is a step: it takes no lock, but two stagings of a file wait    *)
(* for each other, and what it found is looked up again at the commit.     *)
(***************************************************************************)
EXTENDS HardwareRegistry

CONSTANTS
    Importers,     \* commits under way
    Keys,          \* idempotency keys
    ChunkSize      \* rows in a transaction, 500 in the code

ASSUME ImportAssumption == ChunkSize \in Nat \ {0}

VARIABLES
    file,      \* file[d]: the board in the row of device d, or "none" without a row
    staged,    \* staged[d]: status in hardware_import_rows
    saved,     \* saved[k]: the choice in hardware_import_commits, {} without one
    todo       \* todo[c]: rows the commit has not handled yet

importVars == <<file, staged, saved, todo>>

ImportInit ==
    /\ HardwareInit
    /\ file = [d \in Serials |-> "none"]
    /\ staged = [d \in Serials |-> "none"]
    /\ saved = [k \in Keys |-> {}]
    /\ todo = [c \in Importers |-> {}]

InFile == {d \in Serials : file[d] # "none"}

-----------------------------------------------------------------------------
\* sameHardware
Same(d, boards) == registry[d].board = boards[d]

Preview(d, boards) ==
    CASE boards[d] = "none"                 -> "none"
      [] boards[d] # "none" /\ registry[d].state # "unverified" ->
             IF Same(d, boards) THEN "same" ELSE "conflict"
      [] OTHER -> IF boards[d] \in boardTypes THEN "new" ELSE "invalid"

\* StageImport; a file that was staged keeps its rows.
StageImport(boards) ==
    /\ InFile = {}
    /\ file' = boards
    /\ staged' = [d \in Serials |-> Preview(d, boards)]
    /\ UNCHANGED <<hardwareVars, saved, todo>>

\* CommitImport: the rows were valid when staged, and the key has no other choice.
CommitImport(c, k, choice) ==
    /\ todo[c] = {} /\ choice # {}
    /\ \A d \in choice : staged[d] \in {"new", "same", "committed"}
    /\ saved[k] \in {{}, choice}
    /\ saved' = [saved EXCEPT ![k] = choice]
    /\ todo' = [todo EXCEPT ![c] = choice]
    /\ UNCHANGED <<hardwareVars, file, staged>>

\* The first rows of those the commit has left.
Chunk(c) == {d \in todo[c] : Cardinality({e \in todo[c] : e <= d}) <= ChunkSize}

\* Rows of the chunk that were not committed before.
Uncommitted(c) == {d \in Chunk(c) : staged[d] # "committed"}

\* Mutant: a record that changed since the preview passes.
RefusedNever(c) == FALSE

\* A record that changed since the preview refuses the whole chunk.
Refused(c) ==
    \E d \in Uncommitted(c) : registry[d].state # "unverified" /\ ~Same(d, file)

\* commitImportChunk: records not verified yet become what the file says, the others are
\* that already.
CommitChunk(c) ==
    /\ todo[c] # {} /\ ~Refused(c)
    /\ LET imported == {d \in Uncommitted(c) : registry[d].state = "unverified"}
       IN Audited("import", Revisions, [d \in imported |-> Verified(d, file[d])])
    /\ staged' = [d \in Serials |-> IF d \in Chunk(c) THEN "committed" ELSE staged[d]]
    /\ todo' = [todo EXCEPT ![c] = @ \ Chunk(c)]
    /\ UNCHANGED <<boardTypes, latest, firmware, windows, file, saved>>

\* The chunk is refused, a statement fails or the process restarts: the chunks before
\* it stay.
CommitStops(c) ==
    /\ todo[c] # {}
    /\ todo' = [todo EXCEPT ![c] = {}]
    /\ UNCHANGED <<hardwareVars, file, staged, saved>>

-----------------------------------------------------------------------------
ImportNext ==
    \/ RecordNext /\ UNCHANGED importVars
    \/ \E boards \in [Serials -> Boards \cup {"none"}] : StageImport(boards)
    \/ \E c \in Importers :
          \/ \E k \in Keys, choice \in SUBSET Serials : CommitImport(c, k, choice)
          \/ CommitChunk(c) \/ CommitStops(c)

ImportSpec == ImportInit /\ [][ImportNext]_<<hardwareVars, importVars>>

-----------------------------------------------------------------------------
\* The values the state can take; a commit has rows of the file only.
ImportTypeOK ==
    /\ HardwareTypeOK
    /\ file \in [Serials -> Boards \cup {"none"}]
    /\ staged \in [Serials -> {"none", "new", "same", "conflict", "invalid", "committed"}]
    /\ saved \in [Keys -> SUBSET Serials]
    /\ todo \in [Importers -> SUBSET InFile]

\* A row that is called committed is what the record of its device was verified to be,
\* at some time; and the file made that record once at most, however often, under
\* whatever keys and from whatever chunk on its rows were committed.
ImportIsSettled ==
    \A d \in Serials :
        LET entries == DOMAIN history[d]
            imports == {i \in entries : history[d][i].action = "import"}
        IN /\ staged[d] = "committed" =>
                  \E i \in entries :
                      history[d][i].after.state = "verified" /\ history[d][i].after.board = file[d]
           /\ imports # {} => staged[d] = "committed"
           /\ Cardinality(imports) <= 1
=============================================================================
