----------------------------- MODULE Compaction ------------------------------
(***************************************************************************)
(* core/compaction/compaction.ts and the tree of core/session-manager.ts:  *)
(* what the model is given of a session.  The path from the root to the    *)
(* leaf is its history; a compaction entry on the path stands for what was *)
(* before the entry it keeps from, and carries some of the user's messages *)
(* on.  compact() and _runAutoCompaction() (core/agent-session.ts) cut the *)
(* path, wait for the summary, and append the entry where the leaf is by   *)
(* then.  Meanwhile the tree can grow, and its leaf can be moved.          *)
(*                                                                         *)
(* A message counts for one token, and the number of tokens to keep is     *)
(* chosen anew each time, which puts the cut anywhere.  What a summary     *)
(* says is taken to be true of the messages it was made from.  Boundaries  *)
(* and summaries that extensions provide are left out, and so are prompts  *)
(* sent during a compaction, which the surfaces hold back, and forks of    *)
(* sessions that have no file.                                             *)
(***************************************************************************)
EXTENDS Integers, FiniteSets, FiniteSetsExt, SequencesExt

CONSTANTS
    Recent,      \* RETAINED_RECENT_RAW_USER_MESSAGES
    Budgets,     \* values of keepRecentTokens
    MaxEntries,  \* bound: entries, numbered as they are made
    MaxMarks,    \* bound: of which say nothing to the model
    MaxMoves     \* bound: leaf moves and forks

ASSUME CompactionAssumption ==
    /\ Recent \in Nat \ {0} /\ Budgets \subseteq Nat \ {0}
    /\ {MaxEntries, MaxMarks, MaxMoves} \subseteq Nat

VARIABLES
    entries,  \* byId: the entries of the session, by their number
    leaf,     \* 0 when there is none
    made,     \* entries made, by all sessions
    running,  \* tools are running for the last assistant message
    job,      \* the compaction that waits for its summary
    mislaid,  \* history: what has happened to compactions and calls (Mishaps)
    marks, moves

bounds == <<marks, moves>>
compactionVars == <<entries, leaf, made, running, job, mislaid, bounds>>

Messages == {"user", "assistant", "call", "result", "note", "branch"}
Marks == {"meta", "label"}
NoJob == [head |-> 0, kept |-> 0, users |-> {}, covers |-> {}]

(* A compaction is not below the head of the path it was made from, or not *)
(* below the entry it keeps from; the leaf was moved while tools ran.      *)
Mishaps == {"strayed", "unanchored", "severed"}

(* An entry of any kind.  ref: the target of a label, or what a compaction *)
(* keeps from; users: the messages it carries on; covers: what its summary *)
(* was made from, directly or through the summary before.                  *)
Entry(kind, parent) ==
    [kind |-> kind, parent |-> parent, ref |-> 0, users |-> {}, covers |-> {}]

CompactionInit ==
    /\ entries = <<>> /\ leaf = 0 /\ made = 0
    /\ running = FALSE /\ job = NoJob /\ mislaid = {}
    /\ marks = 0 /\ moves = 0

Kind(i) == entries[i].kind

(* buildSessionPath, getBranch: an entry and what it was added to, back to *)
(* the root.  An entry is made after its parent, so the order of a path is *)
(* that of the numbers.                                                    *)
PathIn(es, id) ==
    LET path[i \in 0..MaxEntries] ==
            IF i \in DOMAIN es THEN path[es[i].parent] \cup {i} ELSE {}
    IN  path[id]

Path == PathIn(entries, leaf)

-----------------------------------------------------------------------------
(* What the model is given.                                                *)

(* sessionEntryToContextMessages: an entry gives messages, or none.        *)
Visible(i) == Kind(i) \notin Marks

IsCompaction(i) == Kind(i) = "compaction"
Compactions(path) == {i \in path : IsCompaction(i)}
Latest(path) == Max(Compactions(path))

(* buildContextEntries: the compaction, what it keeps if that is on the    *)
(* path, and what is behind it.                                            *)
ContextEntries(path) ==
    IF Compactions(path) = {} THEN path
    ELSE LET c == Latest(path)
             kept == entries[c].ref
         IN  {i \in path : i >= c \/ (kept \in path /\ i >= kept)}

(* The messages of buildSessionContext, without their order.               *)
Given(path) ==
    LET given == {i \in ContextEntries(path) : Visible(i)}
    IN  given \cup UNION {entries[i].users : i \in Compactions(given)}

-----------------------------------------------------------------------------
(* Where to cut.                                                           *)

(* estimateTokens, of the messages of an entry.                            *)
Tokens(i) ==
    IF Visible(i) THEN 1 + (IF IsCompaction(i) THEN Cardinality(entries[i].users) ELSE 0) ELSE 0

TokensFrom(path, first) == MapThenSumSet(Tokens, {i \in path : i >= first})

(* Mutant: a result can be what is kept first.                             *)
IsCutPointAnywhere(i) == Kind(i) \in Messages

(* isCutPointMessage: a result stays with its call.                        *)
IsCutPoint(i) == Kind(i) \in Messages \ {"result"}

UsersFrom(path, first) == {i \in path : Kind(i) = "user" /\ i >= first}

(* The last n of some entries, or all of them.                             *)
LastOf(ids, n) == {i \in ids : Cardinality({j \in ids : j > i}) < n}

(* findCutPoint: at the point where enough is kept or, where no cut is     *)
(* possible after it, at the first; back over entries that say nothing.    *)
FindCutPoint(path, first, budget) ==
    LET span == {i \in path : i >= first}
        cuts == {i \in span : IsCutPoint(i)}
        full == {i \in span : Tokens(i) > 0 /\ TokensFrom(path, i) >= budget}
        after == {i \in cuts : full # {} /\ i >= Max(full)}
        cut == Min(IF after = {} THEN cuts ELSE after)
    IN  IF cuts = {} THEN first
        ELSE Min({i \in span : i <= cut /\ \A j \in span : i <= j /\ j < cut => ~Visible(j)})

(* capCutPointAtRecentRawUsers                                             *)
Capped(path, first, cut) ==
    LET users == UsersFrom(path, first)
    IN  IF Cardinality(users) > Recent THEN Max({cut, Min(LastOf(users, Recent))}) ELSE cut

(* Mutant: the summarized span starts at the compaction entry itself.      *)
BoundaryStartAfter(path) ==
    IF Compactions(path) = {} THEN 1 ELSE Latest(path) + 1

(* The start of the span to cut: where the last compaction keeps from or,  *)
(* where that is not found, behind it.                                     *)
BoundaryStart(path) ==
    IF Compactions(path) = {} THEN 1
    ELSE LET kept == entries[Latest(path)].ref
         IN  IF kept \in path THEN kept ELSE Latest(path) + 1

(* selectedRawUserEntryIndices                                             *)
SelectedUsers(path) ==
    LET users == UsersFrom(path, 1)
    IN  LastOf(users, Recent) \cup {i \in users : \A j \in users : i <= j}

(* prepareCompaction and collectRetainedRawUserMessages, which are given   *)
(* the same path.                                                          *)
Prepared(path, budget) ==
    LET first == BoundaryStart(path)
        cut == Capped(path, first, FindCutPoint(path, first, budget))
        before == IF Compactions(path) = {} THEN {} ELSE entries[Latest(path)].covers
        summarized == {i \in path : Kind(i) \in Messages /\ i \in first..cut - 1}
    IN  IF summarized = {} THEN NoJob
        ELSE [head |-> leaf, kept |-> cut,
              users |-> {i \in SelectedUsers(path) : i < cut}, covers |-> before \cup summarized]

-----------------------------------------------------------------------------
(* The tree grows at its leaf.                                             *)

Grow(e) ==
    /\ made < MaxEntries
    /\ made' = made + 1 /\ leaf' = made + 1
    /\ entries' = [i \in DOMAIN entries \cup {made + 1} |-> IF i = made + 1 THEN e ELSE entries[i]]

(* appendMessage and appendCustomMessageEntry, as a run adds messages.     *)
(* Only an extension's message is added while a compaction is under way.   *)
Say(kind) ==
    /\ IF kind = "result" THEN running ELSE ~running
    /\ kind \in {"user", "assistant", "call"} => job = NoJob
    /\ kind \in {"assistant", "call"} => \E i \in DOMAIN entries : Visible(i)
    /\ Grow(Entry(kind, leaf))
    /\ running' \in CASE kind = "call" -> {TRUE} [] kind = "result" -> BOOLEAN [] OTHER -> {FALSE}
    /\ UNCHANGED <<job, mislaid, bounds>>

(* appendModelChange, appendRunBoundary and the like, appendLabelChange.   *)
Mark(kind, target) ==
    /\ marks < MaxMarks /\ marks' = marks + 1
    /\ IF kind = "label" THEN target \in DOMAIN entries ELSE target = 0
    /\ Grow([Entry(kind, leaf) EXCEPT !.ref = target])
    /\ UNCHANGED <<running, job, mislaid, moves>>

(* navigateTree, which does not ask whether a compaction is under way or   *)
(* tools are running: their results are added where the leaf is then.      *)
Navigate(target, summarize) ==
    LET to == IF Kind(target) \in {"user", "note"} THEN entries[target].parent ELSE target
    IN  /\ target \in DOMAIN entries /\ target # leaf
        /\ moves < MaxMoves /\ moves' = moves + 1
        /\ IF summarize
           THEN Grow(Entry("branch", to))
           ELSE leaf' = to /\ UNCHANGED <<entries, made>>
        /\ mislaid' = mislaid \cup (IF running THEN {"severed"} ELSE {})
        /\ UNCHANGED <<running, job, marks>>

(* createBranchedSession: the path without its labels becomes a session,   *)
(* with the labels of its entries at its end.  A run of the session before *)
(* is aborted, and not listened to.                                        *)
Fork(id) ==
    LET path == {i \in PathIn(entries, id) : Kind(i) # "label"}
        labelled == {entries[i].ref : i \in {i \in DOMAIN entries : Kind(i) = "label"}}
        targets == SetToSeq(labelled \cap path)
        all == path \cup (made + 1..made + Len(targets))
        above(i) == Max({0} \cup {j \in all : j < i})
        label(i) == [Entry("label", above(i)) EXCEPT !.ref = targets[i - made]]
        lost == \E c \in Compactions(path) : entries[c].ref \notin path
    IN  /\ id \in DOMAIN entries /\ path # {}
        /\ moves < MaxMoves /\ moves' = moves + 1
        /\ made + Len(targets) <= MaxEntries
        /\ entries' = [i \in all |->
                          IF i \in path THEN [entries[i] EXCEPT !.parent = above(i)] ELSE label(i)]
        /\ leaf' = Max(all) /\ made' = made + Len(targets)
        /\ job' = NoJob /\ running' = FALSE
        /\ mislaid' = mislaid \cup (IF lost THEN {"unanchored"} ELSE {})
        /\ UNCHANGED marks

-----------------------------------------------------------------------------
(* Compaction.                                                             *)

(* compact() aborts the run that is on, after it has stopped listening to  *)
(* it: the results of its tools are not recorded.                          *)
Begin(budget) ==
    /\ job = NoJob /\ leaf # 0 /\ ~IsCompaction(leaf)
    /\ job' = Prepared(Path, budget) /\ job' # NoJob
    /\ running' = FALSE
    /\ UNCHANGED <<entries, leaf, made, mislaid, bounds>>

(* The summary is there: appendCompaction, at the leaf of now.             *)
Apply ==
    /\ job # NoJob
    /\ Grow([Entry("compaction", leaf) EXCEPT
                !.ref = job.kept, !.users = job.users, !.covers = job.covers])
    /\ job' = NoJob
    /\ mislaid' = mislaid \cup {m \in {"strayed", "unanchored"} :
                       (IF m = "strayed" THEN job.head ELSE job.kept) \notin Path}
    /\ UNCHANGED <<running, bounds>>

(* It is aborted, fails, or would not free enough.                         *)
Fail ==
    /\ job # NoJob
    /\ job' = NoJob
    /\ UNCHANGED <<entries, leaf, made, running, mislaid, bounds>>

CompactionNext ==
    \/ \E kind \in Messages \ {"branch"} : Say(kind)
    \/ \E kind \in Marks, target \in 0..MaxEntries : Mark(kind, target)
    \/ \E target \in DOMAIN entries, summarize \in BOOLEAN : Navigate(target, summarize)
    \/ \E id \in DOMAIN entries : Fork(id)
    \/ \E budget \in Budgets : Begin(budget)
    \/ Apply \/ Fail

CompactionSpec == CompactionInit /\ [][CompactionNext]_compactionVars

-----------------------------------------------------------------------------
(* Properties.                                                             *)

CompactionTypeOK ==
    /\ made \in 0..MaxEntries /\ DOMAIN entries \subseteq 1..made
    /\ leaf \in DOMAIN entries \cup {0}
    /\ \A i \in DOMAIN entries :
          /\ entries[i] \in [kind : Messages \cup Marks \cup {"compaction"}, parent : 0..i - 1,
                            ref : 0..made, users : SUBSET (1..made), covers : SUBSET (1..made)]
          /\ entries[i].parent \in DOMAIN entries \cup {0}
    /\ job \in [head : 0..made, kept : 0..made, users : SUBSET (1..made), covers : SUBSET (1..made)]
    /\ running \in BOOLEAN /\ mislaid \subseteq Mishaps
    /\ marks \in 0..MaxMarks /\ moves \in 0..MaxMoves

(* Nothing that was said on the way to the leaf is forgotten: the model is *)
(* given it, or a summary that was made from it, however often the session *)
(* is compacted, branched and forked.  Only a compaction that has lost the *)
(* entry it keeps from is excepted: one that was appended to a branch      *)
(* without it, or that keeps from a label, in a fork.                      *)
Accounted ==
    LET covers == IF Compactions(Path) = {} THEN {} ELSE entries[Latest(Path)].covers
    IN  "unanchored" \in mislaid
            \/ {i \in Path : Kind(i) \in Messages} \subseteq Given(Path) \cup covers

(* The model is given the user's first message and the last ones as they   *)
(* were written, whatever was summarized: those a compaction carries on,   *)
(* those it keeps, and those behind it are together enough.  (Not when the *)
(* leaf was moved while the summary was written.)                          *)
UsersKept == mislaid \subseteq {"severed"} => SelectedUsers(Path) \subseteq Given(Path)

(* The result of a call is never given without the call before it, unless  *)
(* a compaction was appended to a branch without the entry it was made at, *)
(* or the leaf was moved while tools ran.                                  *)
CallsKept ==
    LET given == ContextEntries(Path)
    IN  mislaid \subseteq {"unanchored"} =>
            \A i \in given : Kind(i) = "result" =>
                \E c \in given : /\ Kind(c) = "call" /\ c < i
                                 /\ \A j \in Path : j > c /\ j < i => Kind(j) # "call"

(* What the model is given can be sent, and the user's words are in it.    *)
ContextSound == CompactionTypeOK /\ CallsKept /\ UsersKept
=============================================================================
