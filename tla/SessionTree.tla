---------------------------- MODULE SessionTree ----------------------------
(***************************************************************************)
(* The tree of a session and what is made of it: session-manager.ts and    *)
(* compaction.ts without their state.                                      *)
(*                                                                         *)
(* An entry is a number; the table T holds what it is.  A session is a     *)
(* sequence of entries, the header among them, in the order in which they  *)
(* were appended; each entry names its parent, and the conversation is the *)
(* path from the root to the leaf.                                         *)
(***************************************************************************)
EXTENDS Integers, Sequences, FiniteSets, SequencesExt, FiniteSetsExt

CONSTANT KeepRecent   \* keepRecentTokens, where every message counts one

ASSUME KeepRecentAssumption == KeepRecent \in Nat \ {0}

Header == 0    \* the header line, and "no entry" where an entry is named
Torn == -1     \* a line that was written in part

Replies == {"call", "answer", "error"}   \* "error": the request for it failed
Messages == {"user", "result", "bash"} \union Replies
Shown == Messages \union {"branch_summary"}
Kinds == Shown \union {"setting", "label", "compaction"}

\* ref: the call of a result, the target of a label, the first kept entry of a compaction;
\* home: the session an entry was made in; covers: the messages a summary was made from;
\* past: the messages of the conversation up to the entry (the last three are history).
Entry == [kind : Kinds, ref : Nat, home : Nat, covers : SUBSET Nat, parent : Nat, past : SUBSET Nat]

Members(ids) == ToSet(ids) \ {Header}
KindAt(T, path, i) == T[path[i]].kind
Past(T, i) == IF i = Header THEN {} ELSE T[i].past
Answered(T, ids) == \E i \in Members(ids) : T[i].kind \in Replies

\* The elements of s at the places P, in their order.
Picked(s, P) ==
  LET part[n \in 0..Len(s)] ==
        IF n = 0 THEN <<>> ELSE IF n \in P THEN Append(part[n - 1], s[n]) ELSE part[n - 1]
  IN part[Len(s)]

\* transformMessages: what the model is sent of a list of messages, no reply that failed.
Sent(T, s) == Picked(s, {n \in DOMAIN s : T[s[n]].kind # "error"})

(* ------------------------- session-manager.ts ------------------------- *)

\* From the root to leaf; an entry whose parent is not in the session is a root.
PathTo(T, ids, leaf) ==
  LET known == Members(ids)
      up[i \in known \union {Header}] ==
        IF i = Header THEN <<>>
        ELSE Append(up[IF T[i].parent \in known THEN T[i].parent ELSE Header], i)
  IN up[leaf]

LastCompaction(T, path) == SelectLastInSeq(path, LAMBDA i : T[i].kind = "compaction")

\* (AfterFirstKept: the first entry kept is passed over.)
AfterFirstKept(T, path, c) == 1 + SelectInSeq(path, LAMBDA i : i = T[path[c]].ref)
\* The place of the first entry that compaction c kept; 0 if it is not on the path.
FirstKept(T, path, c) == SelectInSeq(path, LAMBDA i : i = T[path[c]].ref)

\* buildSessionContext: the summary, what its compaction kept, and what came after.
Context(T, ids, leaf) ==
  LET path == PathTo(T, ids, leaf)
      c == LastCompaction(T, path)
      first == FirstKept(T, path, c)
      kept == IF c = 0 \/ first = 0 THEN {} ELSE first..(c - 1)
      seen == {n \in kept \union (c + 1)..Len(path) : KindAt(T, path, n) \in Shown}
  IN (IF c = 0 THEN <<>> ELSE <<path[c]>>) \o Picked(path, seen)

\* What loadEntriesFromFile makes of the lines: what follows a torn line is one with it.
Loaded(lines) ==
  Picked(lines, {n \in DOMAIN lines : lines[n] # Torn /\ (n = 1 \/ lines[n - 1] # Torn)})
Valid(lines) == lines # <<>> /\ lines[1] = Header

Placed(T, i, parent) ==
  [T EXCEPT ![i].parent = parent,
            ![i].past = Past(T, parent) \union {m \in {i} : T[i].kind \in Messages}]

\* createBranchedSession: the path without its labels, which are made anew at its end.
Labels(T, ids) == {n \in DOMAIN ids : ids[n] # Header /\ T[ids[n]].kind = "label"}
Branched(T, ids, leaf, home) ==
  LET path == PathTo(T, ids, leaf)
      bare == Picked(path, {n \in DOMAIN path : KindAt(T, path, n) # "label"})
      base == IF bare = <<>> THEN Header ELSE Last(bare)
      wanted == Picked(ids, {n \in Labels(T, ids) : T[ids[n]].ref \in ToSet(bare)})
      made == [k \in DOMAIN wanted |->
                [kind |-> "label", ref |-> T[wanted[k]].ref, home |-> home, covers |-> {},
                 parent |-> IF k = 1 THEN base ELSE Len(T) + k - 1,
                 past |-> Past(T, base)]]
  IN [table |-> T \o made,
      ids |-> <<Header>> \o bare \o [k \in DOMAIN wanted |-> Len(T) + k]]

(* ---------------------------- compaction.ts ---------------------------- *)

\* (CutKindsAll: a result may come first.)
CutKindsAll == Shown
CutKinds == Shown \ {"result"}
TurnStarts == {"user", "bash", "branch_summary"}

\* findCutPoint over the entries from the given one on: the first position to keep.
CutPoint(T, path, from) ==
  LET span == from..Len(path)
      messages == {i \in span : KindAt(T, path, i) \in Messages}
      cuts == {i \in span : KindAt(T, path, i) \in CutKinds}
      enough == {i \in messages : Cardinality({j \in messages : j >= i}) >= KeepRecent}
      after == {i \in cuts : enough # {} /\ i >= Max(enough)}
      cut == IF after # {} THEN Min(after) ELSE Min(cuts)
  IN IF cuts = {} THEN from
     ELSE Min({i \in from..cut : \A j \in i..(cut - 1) : KindAt(T, path, j) \notin Messages})

\* prepareCompaction: what is kept, and the messages that the summary will stand for.  The
\* earlier summary is passed on, but for a split turn with nothing else to summarize.
Prepared(T, path) ==
  LET prev == LastCompaction(T, path)
      from == prev + 1
      cut == CutPoint(T, path, from)
      starts == {i \in from..cut : KindAt(T, path, i) \in TurnStarts}
      split == KindAt(T, path, cut) # "user" /\ starts # {}
      until == IF split THEN Max(starts) ELSE cut
      Said(a, b) == {path[i] : i \in {j \in a..(b - 1) : KindAt(T, path, j) \in Shown}}
      history == Said(from, until)
      prefix == Said(until, cut)
      updated == ~(split /\ prefix # {} /\ history = {})
  IN [kept |-> path[cut],
      covers |-> history \union prefix
                 \union (IF prev # 0 /\ updated THEN T[path[prev]].covers ELSE {})]
CanPrepare(T, path) == path # <<>> /\ KindAt(T, path, Len(path)) # "compaction"

\* What the next compaction would leave out altogether, if its summary did not stand for it:
\* what the last summary was made from, and what the last compaction had kept.
KeptBefore(T, path) ==
  LET c == LastCompaction(T, path)
      first == FirstKept(T, path, c)
      kept == IF first = 0 THEN {} ELSE {j \in first..(c - 1) : KindAt(T, path, j) \in Messages}
  IN IF c = 0 THEN {} ELSE T[path[c]].covers \union {path[i] : i \in kept}

\* Everything said so far is in the context, or in what a summary of the context was made from.
Whole(T, ids, leaf) ==
  LET context == ToSet(Context(T, ids, leaf))
  IN Past(T, leaf) \subseteq context \union UNION {T[i].covers : i \in context}
=============================================================================
