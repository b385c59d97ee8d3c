----------------------------- MODULE StateFiles -----------------------------
(***************************************************************************)
(* The files of the strategy runner, written by a process that may fail or *)
(* die in the middle of any write: the append log under the fill journal   *)
(* and the JSON cell of the runtime state.                                 *)
(*                                                                         *)
(* A log file is its lines and the unterminated tail behind them.  A line  *)
(* or a tail is the sequence of pieces that were written into it: whole    *)
(* records, and fragments of records.  The journal's records are account   *)
(* events: fills of one unit of one instrument, and resyncs.               *)
(***************************************************************************)
EXTENDS Naturals, SequencesExt

CONSTANTS
    MaxEvents,      \* bound on the account sequence
    MaxWrites,      \* bound on the values of the cell
    MaxFaults       \* bound on writes that fail and processes that die

ASSUME FilesAssumption ==
    MaxEvents \in Nat /\ MaxWrites \in Nat /\ MaxFaults \in Nat

VARIABLES
    account,    \* the sides of the account's fill events, in sequence
    lines,      \* the terminated lines of fills.ndjson
    tail,       \* the pieces behind the last newline
    status,     \* STOPPED, SERVING or REFUSED
    incomplete, \* AppendLog.#incomplete
    commits,    \* FillJournal.#commits
    parted,     \* history: a process lived on after a record landed and its fsync threw
    cell,       \* runtime.json: the value in it, 0 before the first
    temporary,  \* runtime.json.tmp: absent, a fragment, or a whole value
    wrote,      \* the last value write() was called with
    told,       \* the last value write() returned for
    faults

vars == <<account, lines, tail, status, incomplete, commits, parted,
          cell, temporary, wrote, told, faults>>

journal == <<lines, tail, incomplete, commits, parted>>
runtime == <<cell, temporary, wrote, told>>

Fails == faults < MaxFaults /\ faults' = faults + 1

(***************************************************************************)
(* The fill journal.                                                       *)
(***************************************************************************)

Fragment == [seq |-> 0, kind |-> "fragment", position |-> 0]
\* A position read back from the ledger is ahead of the cursor, and the fills in
\* between are applied to it again: it may pass the account's last sequence.
Records ==
    [seq : 1 .. MaxEvents, kind : {"FILL", "RESYNC"}, position : 0 .. (2 * MaxEvents)]

\* #index: the highest sequence, and the position the last fill named.
Cursor(log) == Max({0} \cup {log[i].seq : i \in 1 .. Len(log)})

FillsIn(log) == {i \in 1 .. Len(log) : log[i].kind = "FILL"}
Position(log) == IF FillsIn(log) = {} THEN 0 ELSE log[Max(FillsIn(log))].position

\* The position the ledger holds after the first n events.
LedgerPosition(n) ==
    Cardinality({i \in 1 .. n : account[i] = "BUY"})
        - Cardinality({i \in 1 .. n : account[i] = "SELL"})

\* FillResolver: a sale of more than the runner tracks re-reads the position
\* from the ledger, as it is by then.
Applied(position, side) ==
    CASE side = "BUY"                    -> position + 1
      [] side = "SELL" /\ position > 0   -> position - 1
      [] side = "SELL" /\ position = 0   -> LedgerPosition(Len(account))

Init ==
    /\ account = <<>> /\ lines = <<>> /\ tail = <<>>
    /\ status = "STOPPED" /\ incomplete = FALSE /\ commits = <<>> /\ parted = FALSE
    /\ cell = 0 /\ temporary = "absent" /\ wrote = 0 /\ told = 0
    /\ faults = 0

\* The ledger fills another order of the session, never selling what is not held.
AccountEvent ==
    /\ Len(account) < MaxEvents
    /\ \E side \in {"BUY", "SELL"} :
          /\ side = "SELL" => LedgerPosition(Len(account)) > 0
          /\ account' = Append(account, side)
    /\ UNCHANGED <<journal, status, runtime, faults>>

(***************************************************************************)
(* AppendLog.                                                              *)
(***************************************************************************)

\* readAppendLog: a line is a record or damage, the tail a record or nothing.
WholeLine(line) == Len(line) = 1 /\ line[1].kind # "fragment"

ReadTail == IF WholeLine(tail) THEN tail ELSE <<>>

ReadAppendLog == FlattenSeq(lines) \o ReadTail

Damaged == \E i \in 1 .. Len(lines) : ~ WholeLine(lines[i])

\* The runner starts.  The file is opened for appending as it is.
OpenStore ==
    /\ status = "STOPPED" /\ ~ Damaged
    /\ status' = "SERVING" /\ commits' = ReadAppendLog /\ incomplete' = FALSE
    /\ UNCHANGED <<account, lines, tail, parted, runtime, faults>>

RefuseStore ==
    /\ status = "STOPPED" /\ Damaged
    /\ status' = "REFUSED"
    /\ UNCHANGED <<account, journal, runtime, faults>>

\* The record and its newline land behind whatever the tail holds.
Lands(record) ==
    /\ lines' = Append(lines, Append(tail, record)) /\ tail' = <<>>

AppendRegardless(record) ==
    /\ status = "SERVING" /\ Lands(record)
    /\ commits' = Append(commits, record)
    /\ UNCHANGED <<account, status, incomplete, parted, runtime, faults>>

AppendRecord(record) ==
    /\ status = "SERVING" /\ ~ incomplete /\ Lands(record)
    /\ commits' = Append(commits, record)
    /\ UNCHANGED <<account, status, incomplete, parted, runtime, faults>>

\* What is left in memory of a write that did not return: as it was, in a process
\* that caught the error, or nothing.
LivesOn == status' = status /\ UNCHANGED commits
Dies == status' = "STOPPED" /\ incomplete' = FALSE /\ commits' = <<>> /\ UNCHANGED parted

\* A write that throws: nothing landed, or a fragment, or all but the newline.
\* A process that dies in the middle leaves the same files.
AppendCutShort(record) ==
    /\ status = "SERVING" /\ ~ incomplete
    /\ Fails
    /\ tail' \in {tail, Append(tail, Fragment), Append(tail, record)}
    /\ (LivesOn /\ incomplete' = (tail' # tail) /\ UNCHANGED parted) \/ Dies
    /\ UNCHANGED <<account, lines, runtime>>

\* All of it landed, and then fsync throws or the process dies: a process that
\* lives on may append again, and does not know of the record.
AppendUnsynced(record) ==
    /\ status = "SERVING" /\ ~ incomplete
    /\ Fails
    /\ Lands(record)
    /\ (LivesOn /\ UNCHANGED incomplete /\ parted' = TRUE) \/ Dies
    /\ UNCHANGED <<account, runtime>>

Write(record) == AppendRecord(record) \/ AppendCutShort(record) \/ AppendUnsynced(record)

\* FillProcessor.process: an event at or before the cursor is not applied.
FillRecord(e) ==
    [seq |-> e, kind |-> "FILL", position |-> Applied(Position(commits), account[e])]

UnseenOrLast(e) == e >= Cursor(commits)

Unseen(e) == e > Cursor(commits)

\* Any event past the cursor is taken up: the queue goes on behind one that failed.
ProcessEvent == \E e \in 1 .. Len(account) : Unseen(e) /\ Write(FillRecord(e))

\* FillProcessor.resync: the cursor jumps to the sequence the ledger had when it
\* was read, and no position is named.
ResyncRecord(n) == [seq |-> n, kind |-> "RESYNC", position |-> 0]

Resync == \E n \in 1 .. Len(account) : Unseen(n) /\ Write(ResyncRecord(n))

(***************************************************************************)
(* JsonCell.write: a temporary file, then a rename.                        *)
(***************************************************************************)

\* The value of a cell that is not JSON.
Torn == MaxWrites + 1

WriteTemporary ==
    /\ status = "SERVING" /\ temporary = "absent" /\ wrote = told /\ wrote < MaxWrites
    /\ wrote' = wrote + 1
    /\ \/ temporary' = "whole" /\ UNCHANGED faults
       \/ temporary' = "fragment" /\ Fails
    /\ UNCHANGED <<account, journal, status, cell, told>>

\* A short write is removed and reported; the cell keeps its value.
RemoveTemporary ==
    /\ status = "SERVING" /\ temporary = "fragment"
    /\ temporary' = "absent" /\ wrote' = told
    /\ UNCHANGED <<account, journal, status, cell, told, faults>>

Rename ==
    /\ status = "SERVING" /\ temporary = "whole"
    /\ temporary' = "absent"
    /\ \/ cell' = wrote /\ told' = wrote /\ UNCHANGED <<wrote, faults>>
       \/ Fails /\ wrote' = told /\ UNCHANGED <<cell, told>>
    /\ UNCHANGED <<account, journal, status>>

\* The process dies.  The next life truncates a temporary file it finds, so
\* what it holds does not matter.
Crash ==
    /\ status = "SERVING"
    /\ Fails
    /\ Dies
    /\ temporary' = "absent" /\ wrote' = cell /\ told' = cell
    /\ UNCHANGED <<account, lines, tail, cell>>

Next ==
    \/ AccountEvent \/ OpenStore \/ RefuseStore \/ ProcessEvent \/ Resync
    \/ WriteTemporary \/ RemoveTemporary \/ Rename \/ Crash

Spec == Init /\ [][Next]_vars

(***************************************************************************)
(* Properties.                                                             *)
(***************************************************************************)

\* The variables have their types.
TypeOK ==
    /\ account \in Seq({"BUY", "SELL"}) /\ Len(account) <= MaxEvents
    /\ \A i \in 1 .. Len(lines) : lines[i] \in Seq(Records \cup {Fragment})
    /\ tail \in Seq(Records \cup {Fragment}) /\ commits \in Seq(Records)
    /\ status \in {"STOPPED", "SERVING", "REFUSED"} /\ {incomplete, parted} \subseteq BOOLEAN
    /\ {wrote, told} \subseteq 0 .. MaxWrites /\ cell \in 0 .. Torn
    /\ temporary \in {"absent", "fragment", "whole"} /\ faults \in 0 .. MaxFaults

\* The records are those of the account's first events, none left out.
Unbroken(log) == \A i \in 1 .. Len(log) : log[i].kind = "FILL" /\ log[i].seq = i

\* Through torn and spliced lines, failed events that a later one passes, replays,
\* resyncs and restarts, a journal applies no event twice nor one behind a later
\* one, and where it has left none out its position is the one the ledger had at
\* the cursor, unless a process has lived on after a record it was not told of had
\* landed whole; and the cell always holds, whole, the last value its writer was
\* told of or the one being written.
FilesTellTheTruth ==
    /\ ~ parted =>
          /\ \A i, j \in 1 .. Len(commits) : i < j => commits[i].seq < commits[j].seq
          /\ Unbroken(commits) => Position(commits) = LedgerPosition(Cursor(commits))
    /\ cell \in {told, wrote}

\* The records of a line some life was told of: the last one, and one before it
\* that was read back as a record when it was the tail.
Told(line) == IF WholeLine(Front(line)) THEN line ELSE <<Last(line)>>

Terminated == FlattenSeq([i \in 1 .. Len(lines) |-> Told(lines[i])])

Journal == INSTANCE DurableJournal WITH
    Entries <- Records, entries <- Terminated, doubt <- ReadTail,
    torn <- Damaged \/ tail # <<>>, known <- commits, closed <- incomplete, status <- status

\* The append log implements the durable journal: no life starts without an
\* entry an earlier one was told of, and it is refused only once some write was
\* left in the middle.
ImplementsJournal == Journal!Spec
=============================================================================
