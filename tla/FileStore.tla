----------------------------- MODULE FileStore ------------------------------
(***************************************************************************)
(* The files a command leaves behind (persistCommandResult): a line in the *)
(* audit log, which is rotated once, and for each document or proof a file *)
(* in a directory from which the oldest are pruned; documents and proofs   *)
(* have a directory each, of which one is modelled.  All steps are         *)
(* synchronous, but the process may die between two of them, and the clock *)
(* of the file system may stand still or go back.                          *)
(***************************************************************************)
EXTENDS Integers, SequencesExt, FiniteSetsExt

CONSTANTS
  Paths,       \* names of the files, in their order
  LineSizes,   \* sizes of audit lines
  MaxAudit,    \* size of the audit log
  MaxFiles,    \* files kept in the directory
  Clocks,      \* times the file system's clock can show
  MaxCommands  \* commands of a behaviour

ASSUME FileAssumption ==
  /\ Paths \subseteq Nat /\ Clocks \subseteq Nat
  /\ LineSizes \subseteq Nat \ {0}
  /\ MaxAudit \in Nat /\ MaxFiles \in Nat \ {0} /\ MaxCommands \in Nat

VARIABLES
  fpc,         \* idle, rotate, rename, append, write, prune
  commands,    \* commands so far
  incoming,    \* size of the line of this command
  audit,       \* the log: its size, and its lines by their numbers
  rotated,     \* the rotated log, likewise
  logged,      \* lines appended so far
  pending,     \* paths the command has still to write
  files,       \* the directory: path |-> modification time, from 0
  wrote,       \* every write so far, in order
  died         \* the process died between two steps at some time

fileVars == <<fpc, commands, incoming, audit, rotated, logged, pending, files, wrote, died>>

NoLog == [bytes |-> 0, lines |-> <<>>]

FileInit ==
  /\ fpc = "idle" /\ commands = 0 /\ incoming = 0 /\ logged = 0
  /\ audit = NoLog /\ rotated = NoLog
  /\ pending = <<>> /\ files = << >> /\ wrote = <<>> /\ died = FALSE

\* A line larger than the log ends the command before anything is written.
\* Whatever fails here, the command's answer is sent all the same.
Command(size, documents) ==
  /\ fpc = "idle" /\ commands < MaxCommands
  /\ commands' = commands + 1
  /\ IF size > MaxAudit
     THEN UNCHANGED <<fpc, incoming, pending>>
     ELSE fpc' = "rotate" /\ incoming' = size /\ pending' = documents
  /\ UNCHANGED <<audit, rotated, logged, files, wrote, died>>

\* The older log is removed, then the log takes its name.
UnlinkRotated ==
  /\ fpc = "rotate"
  /\ IF audit = NoLog \/ audit.bytes + incoming <= MaxAudit
     THEN fpc' = "append" /\ UNCHANGED rotated
     ELSE fpc' = "rename" /\ rotated' = NoLog
  /\ UNCHANGED <<commands, incoming, audit, logged, pending, files, wrote, died>>

RenameLog ==
  /\ fpc = "rename"
  /\ rotated' = audit /\ audit' = NoLog
  /\ fpc' = "append"
  /\ UNCHANGED <<commands, incoming, logged, pending, files, wrote, died>>

AppendJsonLine ==
  /\ fpc = "append"
  /\ logged' = logged + 1
  /\ audit' = [bytes |-> audit.bytes + incoming, lines |-> Append(audit.lines, logged + 1)]
  /\ fpc' = (IF pending = <<>> THEN "idle" ELSE "write")
  /\ UNCHANGED <<commands, incoming, rotated, pending, files, wrote, died>>

WriteJson(time) ==
  /\ fpc = "write"
  /\ files' = [p \in DOMAIN files \cup {Head(pending)} |->
                 IF p = Head(pending) THEN time ELSE files[p]]
  /\ wrote' = Append(wrote, Head(pending))
  /\ fpc' = "prune"
  /\ UNCHANGED <<commands, incoming, audit, rotated, logged, pending, died>>

\* Broken: trusts the clock.
Touched_Trusts == files

\* The file just written is made the newest, whatever the clock showed.
Touched ==
  LET written == Head(pending)
      others == {files[p] : p \in DOMAIN files \ {written}}
      newest == IF others = {} THEN -1 ELSE Max(others)
  IN  IF files[written] <= newest THEN [files EXCEPT ![written] = newest + 1] ELSE files

\* The files that come after one, by name where two are equally old.
Newer(fs, p) == {q \in DOMAIN fs : fs[p] < fs[q] \/ (fs[p] = fs[q] /\ p < q)}

PruneRegularFiles ==
  /\ fpc = "prune"
  /\ LET kept == {p \in DOMAIN files : Cardinality(Newer(Touched, p)) < MaxFiles}
     IN  files' = [p \in kept |-> Touched[p]]
  /\ pending' = Tail(pending)
  /\ fpc' = (IF Tail(pending) = <<>> THEN "idle" ELSE "write")
  /\ UNCHANGED <<commands, incoming, audit, rotated, logged, wrote, died>>

Dies ==
  /\ fpc # "idle"
  /\ fpc' = "idle" /\ pending' = <<>> /\ died' = TRUE
  /\ UNCHANGED <<commands, incoming, audit, rotated, logged, files, wrote>>

FileStep ==
  \/ \E size \in LineSizes, documents \in BoundedSeq(Paths, 2) : Command(size, documents)
  \/ UnlinkRotated \/ RenameLog \/ AppendJsonLine
  \/ \E time \in Clocks : WriteJson(time)
  \/ PruneRegularFiles
  \/ Dies

FileTypeOK ==
  /\ fpc \in {"idle", "rotate", "rename", "append", "write", "prune"}
  /\ commands \in 0..MaxCommands
  /\ DOMAIN files \subseteq Paths

\* q was written after the last time that p was.
WrittenAfter(q, p) == \E i \in DOMAIN wrote : wrote[i] = q /\ \A j \in i..Len(wrote) : wrote[j] # p

\* The logs hold the last lines in order, none missing between them, even
\* where the process died; the directory is within its limit between commands,
\* and while the process lived through them no file is gone that was written
\* after one that is still there.
StoreKeepsNewest ==
  /\ LET lines == rotated.lines \o audit.lines
     IN  \A i \in DOMAIN lines : lines[i] = logged - Len(lines) + i
  /\ audit.bytes <= MaxAudit /\ rotated.bytes <= MaxAudit
  /\ fpc = "idle" /\ ~died =>
       /\ Cardinality(DOMAIN files) <= MaxFiles
       /\ \A p \in ToSet(wrote) \ DOMAIN files, q \in DOMAIN files : WrittenAfter(q, p)
=============================================================================
