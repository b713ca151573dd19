----------------------------- MODULE SessionFile ----------------------------
(***************************************************************************)
(* core/session-manager.ts: a session is a tree of entries, kept in memory *)
(* and in a file of one line per entry.  Entries are only appended, as     *)
(* children of a leaf that can be moved; the file is not written before    *)
(* the session has an assistant message, then as a whole, and from then on *)
(* line by line.  It is read back when the session is opened again.        *)
(*                                                                         *)
(* Writes can fail, or the process can die in them, with a part of the     *)
(* text in the file.  An entry stands for any entry of its kind: an        *)
(* assistant message, or anything else.  Labels, which a fork writes anew, *)
(* and the migration of old versions are left out.                         *)
(***************************************************************************)
EXTENDS Integers, FiniteSets, SequencesExt

CONSTANTS
    MaxEntries,   \* bound: entries, numbered as they are made
    MaxFailures,  \* bound: writes that fail
    MaxCrashes    \* bound: writes in which the process dies

ASSUME SessionAssumption == {MaxEntries, MaxFailures, MaxCrashes} \subseteq Nat

Kinds == {"assistant", "other"}
Entries == [id : 1..MaxEntries, parent : 0..MaxEntries, kind : Kinds]
Header == [id |-> 0, parent |-> 0, kind |-> "header"]
Junk == [id |-> -1, parent |-> 0, kind |-> "junk"]  \* a line that is not JSON
Lines == Entries \cup {Header, Junk}

VARIABLES
    up,          \* the session is open
    made,        \* entries made, by all processes
    entries,     \* fileEntries, without the header
    leaf,        \* 0 when there is none
    flushed,
    exists,      \* the file
    lines, torn, \* its lines; the last one has no newline
    acked,       \* history: entries whose append returned, written to the file
    eaten,       \* history: entries in a line that was added to a torn one
    spoiled,     \* history: so was the header, or a rewrite broke off
    behind,      \* history: an append failed, and the process went on
    failures, crashes

memory == <<entries, leaf, flushed>>
file == <<exists, lines, torn>>
faults == <<failures, crashes>>
history == <<acked, eaten, spoiled, behind>>
sessionVars == <<up, made, memory, file, history, faults>>

Ids(es) == {e.id : e \in Range(es)}
HasAssistant(es) == \E e \in Range(es) : e.kind = "assistant"

FileInit ==
    /\ up = TRUE /\ made = 0 /\ entries = <<>> /\ leaf = 0 /\ flushed = FALSE
    /\ exists = FALSE /\ lines = <<>> /\ torn = FALSE
    /\ acked = {} /\ eaten = {} /\ spoiled = FALSE /\ behind = FALSE /\ failures = 0 /\ crashes = 0

(* The members of a sequence at these positions, in their order.           *)
Rank(places, i) == Cardinality({k \in places : k <= i})
Picked(s, places) ==
    [n \in 1..Cardinality(places) |-> s[CHOOSE i \in places : Rank(places, i) = n]]

(* loadEntriesFromFile: lines that are not JSON are skipped, and what does *)
(* not begin with a header is no session.                                  *)
IsSession(ls) == \E i \in DOMAIN ls : ls[i] = Header /\ \A j \in 1..i - 1 : ls[j] = Junk
Parsed(ls) == {i \in DOMAIN ls : ls[i] \notin {Header, Junk}}
Loaded(ls) == IF IsSession(ls) THEN Picked(ls, Parsed(ls)) ELSE <<>>

-----------------------------------------------------------------------------
(* Writes.  A text goes behind what is there: behind a line without its    *)
(* newline it makes one line of two, which is not JSON.                    *)
Behind(text) ==
    IF torn /\ text # <<>>
    THEN Front(lines) \o <<Junk>> \o Tail(text)
    ELSE lines \o text

Eats(text) ==
    IF torn /\ text # <<>>
    THEN /\ eaten' = eaten \cup ({Last(lines).id, Head(text).id} \ {0, -1})
         /\ spoiled' = (spoiled \/ lines = <<Header>>)
    ELSE UNCHANGED <<eaten, spoiled>>

(* What a broken write of a text leaves: some lines, and perhaps a part of *)
(* the next, which lacks at least its newline.                             *)
Parts == {"none", "half", "line"}
Broken(text, n, part) ==
    LET whole == SubSeq(text, 1, n)
    IN  CASE part = "none" -> whole
          [] part = "half" -> Append(whole, Junk)
          [] part = "line" -> Append(whole, text[n + 1])

(* The outcomes of a write: it succeeds, fails, or the process dies in it. *)
Written ==
    /\ torn' = FALSE
    /\ UNCHANGED <<up, behind, faults>>

BreaksOff ==
    \/ failures < MaxFailures /\ failures' = failures + 1 /\ behind' = TRUE
       /\ UNCHANGED <<up, crashes>>
    \/ crashes < MaxCrashes /\ crashes' = crashes + 1 /\ up' = FALSE
       /\ UNCHANGED <<behind, failures>>

NothingWritten == UNCHANGED <<up, file, history, faults>>

-----------------------------------------------------------------------------
(* Mutant: the first write adds to a file that is there.                   *)
CreateRefusedNever == FALSE

(* The first write creates the file, and throws when there is one.         *)
CreateRefused == exists

(* What _persist writes for a new entry.                                   *)
Text(e, all) ==
    IF flushed THEN <<e>> ELSE IF HasAssistant(all) THEN <<Header>> \o all ELSE <<>>

(* _appendEntry of a new child of an entry.  Memory is first.              *)
AppendTo(parent, kind) ==
    LET e == [id |-> made + 1, parent |-> parent, kind |-> kind]
        all == Append(entries, e)
        text == Text(e, all)
    IN  /\ up /\ made < MaxEntries
        /\ made' = made + 1
        /\ entries' = all /\ leaf' = e.id
        /\ \/ text = <<>> /\ NothingWritten /\ UNCHANGED flushed
           \/ text # <<>> /\ ~flushed /\ CreateRefused
              /\ behind' = TRUE
              /\ UNCHANGED <<up, file, flushed, acked, eaten, spoiled, faults>>
           \/ /\ text # <<>> /\ (flushed \/ ~CreateRefused)
              /\ exists' = TRUE
              /\ \/ /\ lines' = Behind(text) /\ Eats(text) /\ flushed' = TRUE
                    /\ acked' = acked \cup (Ids(text) \ {0})
                    /\ Written
                 \/ \E n \in 0..Len(text) - 1, part \in Parts :
                        LET got == Broken(text, n, part)
                        IN  /\ lines' = Behind(got) /\ Eats(got)
                            /\ torn' = (part # "none" \/ (torn /\ got = <<>>))
                            /\ UNCHANGED <<flushed, acked>>
                            /\ BreaksOff

Add(kind) == AppendTo(leaf, kind)

(* branch() and resetLeaf(), which are not written down.                   *)
Branch(id) ==
    /\ up /\ id \in Ids(entries) \cup {0} /\ id # leaf
    /\ leaf' = id
    /\ UNCHANGED <<up, made, entries, flushed, file, history, faults>>

(* branchWithSummary                                                       *)
BranchWithSummary(id) == id \in Ids(entries) \cup {0} /\ AppendTo(id, "other")

(* _rewriteFile of these entries, then the flag.  acks: what the file had. *)
Rewrite(es, acks) ==
    LET text == <<Header>> \o es
    IN  /\ exists' = TRUE
        /\ \/ /\ lines' = text /\ flushed' = TRUE /\ acked' = acks \cup Ids(es)
              /\ UNCHANGED <<spoiled, eaten>>
              /\ Written
           \/ \E n \in 0..Len(text) - 1, part \in Parts :
                  /\ lines' = Broken(text, n, part) /\ torn' = (part # "none") /\ spoiled' = TRUE
                  /\ UNCHANGED <<flushed, acked, eaten>>
                  /\ BreaksOff

(* getBranch: an entry and what it descends from, to the root or to a      *)
(* parent that is missing.  A parent is made before its children, so the   *)
(* entries are in the order of the path.                                   *)
HasParents(es, ids) ==
    \A e \in Range(es) : e.id \in ids /\ e.parent \in Ids(es) => e.parent \in ids

Ancestry(es, id) ==
    {a \in Ids(es) : \A ids \in SUBSET Ids(es) : id \in ids /\ HasParents(es, ids) => a \in ids}

Path(es, id) == Picked(es, {i \in DOMAIN es : es[i].id \in Ancestry(es, id)})

(* Mutant: only the branch of the leaf is written.                         *)
MaterializeBranch ==
    /\ up
    /\ Rewrite(Path(entries, leaf), acked)
    /\ UNCHANGED <<made, entries, leaf>>

Materialize ==
    /\ up
    /\ Rewrite(entries, acked)
    /\ UNCHANGED <<made, entries, leaf>>

(* createBranchedSession: the path becomes a session with a file of its    *)
(* own, which is written when it has an assistant message.                 *)
Rooted(path) ==
    [i \in DOMAIN path |-> [path[i] EXCEPT !.parent = IF i = 1 THEN 0 ELSE path[i - 1].id]]

Fork(id) ==
    LET path == Rooted(Path(entries, id))
    IN  /\ up /\ id \in Ids(entries)
        /\ entries' = path /\ leaf' = id
        /\ IF HasAssistant(path)
           THEN Rewrite(path, {})
           ELSE /\ exists' = FALSE /\ lines' = <<>> /\ torn' = FALSE /\ flushed' = FALSE
                /\ acked' = {}
                /\ UNCHANGED <<up, eaten, spoiled, behind, faults>>
        /\ UNCHANGED made

-----------------------------------------------------------------------------
Stop ==
    /\ up
    /\ up' = FALSE
    /\ UNCHANGED <<made, memory, file, history, faults>>

(* An empty file becomes a session; any other that is none is left alone,  *)
(* and not opened.                                                         *)
Overwrites == lines = <<>>

(* _setSessionFile                                                         *)
Open ==
    /\ ~up
    /\ up' = TRUE
    /\ entries' = Loaded(lines)
    /\ leaf' = IF Loaded(lines) = <<>> THEN 0 ELSE Last(Loaded(lines)).id
    /\ \/ ~exists /\ flushed' = FALSE /\ UNCHANGED file
       \/ exists /\ IsSession(lines) /\ flushed' = TRUE /\ UNCHANGED file
       \/ exists /\ ~IsSession(lines) /\ Overwrites
          /\ flushed' = TRUE /\ lines' = <<Header>> /\ torn' = FALSE /\ UNCHANGED exists
    /\ UNCHANGED <<made, history, faults>>

FileNext ==
    \/ \E kind \in Kinds : Add(kind)
    \/ \E id \in 0..MaxEntries : Branch(id) \/ BranchWithSummary(id) \/ Fork(id)
    \/ Materialize \/ Stop \/ Open

FileSpec == FileInit /\ [][FileNext]_sessionVars

-----------------------------------------------------------------------------
(* Properties.                                                             *)

FileTypeOK ==
    /\ acked \cup eaten \subseteq 1..MaxEntries
    /\ {up, flushed, exists, torn, spoiled, behind} \subseteq BOOLEAN
    /\ made \in 0..MaxEntries /\ Range(entries) \subseteq Entries
    /\ leaf \in Ids(entries) \cup {0} /\ Range(lines) \subseteq Lines
    /\ failures \in 0..MaxFailures /\ crashes \in 0..MaxCrashes
    /\ torn => lines # <<>>

(* What is read back is what the session had: once it has a file, the file *)
(* holds all its entries in their order, and every entry has its parent.   *)
(* Writes that failed while the process went on, lines added to a torn one *)
(* and rewrites that broke off are the exceptions.                         *)
FileIsMemory ==
    up /\ flushed /\ eaten = {} /\ ~spoiled /\ ~behind =>
        /\ Loaded(lines) = entries
        /\ \A e \in Range(entries) : e.parent \in Ids(entries) \cup {0}

(* The file has one header, before everything else, and no entry twice,    *)
(* whatever fails in whichever order.                                      *)
OneCopy ==
    /\ \A i, j \in DOMAIN lines : lines[i] # Junk /\ lines[i].id = lines[j].id => i = j
    /\ Header \in Range(lines) => IsSession(lines)

(* The file can be read, and what is read is the session.                  *)
FileSound == FileTypeOK /\ FileIsMemory /\ OneCopy

(* An entry whose append has returned is read back: no failed write, death *)
(* or restart later on loses it.  A torn line costs the entry written next *)
(* and no other; only a torn header, or a rewrite of the file that breaks  *)
(* off, costs the session.                                                 *)
AckedKept == spoiled \/ acked \subseteq Ids(Loaded(lines)) \cup eaten
=============================================================================
