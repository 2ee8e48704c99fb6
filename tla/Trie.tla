-------------------------------- MODULE Trie --------------------------------
(***************************************************************************)
(* trie_t, with which XSUB counts its subscriptions, and mtrie_t, with     *)
(* which XPUB finds the pipes that are subscribed to a message.            *)
(*                                                                         *)
(* A node has a table for the characters min .. min + count - 1; the code  *)
(* keeps a table of one slot as a single pointer.  Tables grow when a      *)
(* character is outside of them and shrink when a node is pruned.  A node  *)
(* is a value here, own is the reference count, or the set of pipes.       *)
(***************************************************************************)
EXTENDS Integers, Sequences, FiniteSets

CONSTANTS Strings,  \* what is subscribed to: sequences of characters
          Data,     \* what is looked up
          Owners,   \* the pipes
          MaxRef    \* bound on a reference count

VARIABLES multi,  \* an mtrie_t, or a trie_t
          root,   \* the root node
          ref,    \* string -> the count, or the pipes, that were asked for
          ok      \* assertions hold and return values were right

vars == <<multi, root, ref, ok>>

None == IF multi THEN {} ELSE 0   \* of pipes or references
NoNode == [null |-> TRUE]
NewNode == [own |-> None, min |-> 0, live_nodes |-> 0, table |-> <<>>]

Count(t) == Len(t.table)
InTable(t, c) == c >= t.min /\ c < t.min + Count(t)
Slot(t, c) == t.table[c - t.min + 1]
Nulls(k) == [i \in 1..k |-> NoNode]

is_redundant(t) == t.own = None /\ t.live_nodes = 0

Init ==
    /\ multi \in BOOLEAN
    /\ root = NewNode
    /\ ref = [s \in Strings |-> None]
    /\ ok = TRUE

(***************************************************************************)
(* add ()                                                                  *)
(***************************************************************************)
\* The table is extended so that it has a slot for c.
Extended(t, c) ==
    IF InTable(t, c) THEN t
    ELSE IF Count(t) = 0 THEN [t EXCEPT !.min = c, !.table = <<NoNode>>]
    ELSE IF t.min < c THEN [t EXCEPT !.table = @ \o Nulls(c - t.min + 1 - Count(t))]
    ELSE [t EXCEPT !.min = c, !.table = Nulls(t.min - c) \o @]

\* r.ret is true if nobody had the string before.
RECURSIVE add(_, _, _)
add(t, s, p) ==
    IF s = <<>>
    THEN [t |-> [t EXCEPT !.own = IF multi THEN @ \cup {p} ELSE @ + 1],
          ret |-> t.own = None, ok |-> TRUE]
    ELSE LET c == Head(s)
             e == Extended(t, c)
             new == Slot(e, c) = NoNode
             live == IF new THEN e.live_nodes + 1 ELSE e.live_nodes
             r == add(IF new THEN NewNode ELSE Slot(e, c), Tail(s), p)
         IN  [t |-> [e EXCEPT !.table[c - e.min + 1] = r.t, !.live_nodes = live],
              ret |-> r.ret,
              ok |-> r.ok /\ (new /\ ~multi => (Count(e) = 1 <=> live = 1))]

(***************************************************************************)
(* rm ()                                                                   *)
(***************************************************************************)
Live(t) == {i \in DOMAIN t.table : t.table[i] # NoNode}
First(S) == CHOOSE i \in S : \A j \in S : i <= j
Final(S) == CHOOSE i \in S : \A j \in S : i >= j

\* Variant that gives the only node left in the table the wrong character.
Compacted_KeepsMin(t) ==
    [t EXCEPT !.table = IF Live(t) = {} THEN <<>> ELSE SubSeq(@, First(Live(t)), Final(Live(t)))]

\* The table without the empty slots at its ends.
Compacted(t) ==
    IF Live(t) = {} THEN [t EXCEPT !.table = <<>>]
    ELSE [t EXCEPT !.min = @ + First(Live(t)) - 1,
                   !.table = SubSeq(@, First(Live(t)), Final(Live(t)))]

\* Variant that leaves the node in its table.
Pruned_Left(t, c) == [t |-> t, ok |-> TRUE]

\* Prunes the node of c.  Only a slot at an end of the table makes it shrink;
\* when one node is left, trie_t takes the one at the other end.
Pruned(t, c) ==
    LET u == [t EXCEPT !.table[c - t.min + 1] = NoNode, !.live_nodes = @ - 1]
        atEnd == c = t.min \/ c = t.min + Count(t) - 1
    IN  [t |-> IF Count(t) = 1 \/ u.live_nodes = 1 \/ atEnd THEN Compacted(u) ELSE u,
         ok |-> IF Count(t) = 1 THEN u.live_nodes = 0
                ELSE /\ t.live_nodes > 1
                     /\ u.live_nodes = 1 =>
                          /\ Cardinality(Live(u)) = 1
                          /\ ~multi => IF c = t.min THEN u.table[Count(u)] # NoNode
                                       ELSE c = t.min + Count(t) - 1 /\ u.table[1] # NoNode]

\* r.ret: the string has no owner (any more).  Of a string without one
\* trie_t returns false; mtrie_t returns true if there is a node for it.
RECURSIVE rm(_, _, _)
rm(t, s, p) ==
    IF s = <<>>
    THEN IF multi
         THEN [t |-> [t EXCEPT !.own = @ \ {p}], ret |-> t.own \ {p} = {},
               ok |-> t.own # {} => p \in t.own]
         ELSE [t |-> [t EXCEPT !.own = IF @ = 0 THEN 0 ELSE @ - 1], ret |-> t.own = 1, ok |-> TRUE]
    ELSE LET c == Head(s) IN
         IF ~InTable(t, c) \/ Slot(t, c) = NoNode THEN [t |-> t, ret |-> FALSE, ok |-> TRUE]
         ELSE LET r == rm(Slot(t, c), Tail(s), p)
                  u == [t EXCEPT !.table[c - t.min + 1] = r.t]
                  v == Pruned(u, c)
              IN  IF is_redundant(r.t)
                  THEN [t |-> v.t, ret |-> r.ret, ok |-> r.ok /\ v.ok]
                  ELSE [t |-> u, ret |-> r.ret, ok |-> r.ok]

\* rm () of a pipe: all its strings; calls are those reported to func_, each
\* when it was the pipe's (or, with uniq, the pipe's alone).
RECURSIVE rm_pipe(_, _, _, _)
rm_pipe(t, p, s, uniq) ==
    LET mine == p \in t.own
        sub == [i \in DOMAIN t.table |->
                  IF t.table[i] = NoNode THEN [t |-> NoNode, calls |-> {}, ok |-> TRUE]
                  ELSE rm_pipe(t.table[i], p, Append(s, t.min + i - 1), uniq)]
        left == [i \in DOMAIN t.table |->
                  IF sub[i].t = NoNode \/ is_redundant(sub[i].t) THEN NoNode ELSE sub[i].t]
        u == [t EXCEPT !.own = @ \ {p}, !.table = left,
                       !.live_nodes = @ - Cardinality({i \in DOMAIN left : left[i] = NoNode /\ sub[i].t # NoNode})]
    IN  [t |-> Compacted(u),
         calls |-> (IF mine /\ (uniq => t.own = {p}) THEN {s} ELSE {})
                     \cup UNION {sub[i].calls : i \in DOMAIN sub},
         ok |-> (\A i \in DOMAIN sub : sub[i].ok) /\ u.live_nodes = Cardinality(Live(u))]

(***************************************************************************)
(* check (), match () and apply ()                                         *)
(***************************************************************************)
RECURSIVE check(_, _)
check(t, d) ==
    IF t.own # None THEN TRUE
    ELSE IF d = <<>> \/ ~InTable(t, Head(d)) THEN FALSE
    ELSE Slot(t, Head(d)) # NoNode /\ check(Slot(t, Head(d)), Tail(d))

RECURSIVE match(_, _)
match(t, d) ==
    t.own \cup IF d = <<>> \/ ~InTable(t, Head(d)) THEN {}
               ELSE IF Slot(t, Head(d)) = NoNode THEN {} ELSE match(Slot(t, Head(d)), Tail(d))

RECURSIVE apply(_, _)
apply(t, s) ==
    (IF t.own # None THEN {s} ELSE {})
      \cup UNION {apply(t.table[i], Append(s, t.min + i - 1)) : i \in Live(t)}

(***************************************************************************)
(* The sockets add and remove strings.                                     *)
(***************************************************************************)
Add(s, p) ==
    /\ ~multi => ref[s] < MaxRef
    /\ LET r == add(root, s, p)
       IN  /\ root' = r.t
           /\ ok' = (ok /\ r.ok /\ (r.ret <=> ref[s] = None))
    /\ ref' = [ref EXCEPT ![s] = IF multi THEN @ \cup {p} ELSE @ + 1]
    /\ UNCHANGED multi

\* A string that others have but p has not is not removed (see PubSub).
Rm(s, p) ==
    /\ multi => ref[s] = {} \/ p \in ref[s]
    /\ LET r == rm(root, s, p)
           after == IF multi THEN ref[s] \ {p} ELSE IF ref[s] = 0 THEN 0 ELSE ref[s] - 1
       IN  /\ root' = r.t
           /\ ok' = (ok /\ r.ok /\ (ref[s] # None => (r.ret <=> after = None)))
           /\ ref' = [ref EXCEPT ![s] = after]
    /\ UNCHANGED multi

RmPipe(p) ==
    /\ multi
    /\ \E uniq \in BOOLEAN :
         LET r == rm_pipe(root, p, <<>>, uniq)
         IN  /\ root' = r.t
             /\ ok' = (ok /\ r.ok /\ r.calls = {s \in Strings : p \in ref[s] /\ (uniq => ref[s] = {p})})
    /\ ref' = [s \in Strings |-> ref[s] \ {p}]
    /\ UNCHANGED multi

Next == \/ \E s \in Strings, p \in Owners : Add(s, p) \/ Rm(s, p)
        \/ \E p \in Owners : RmPipe(p)

Spec == Init /\ [][Next]_vars

(***************************************************************************)
(* Properties.                                                             *)
(***************************************************************************)
IsPrefix(s, d) == Len(s) <= Len(d) /\ SubSeq(d, 1, Len(s)) = s

\* The tries behave like the multiset of the strings that were added and not
\* removed: which strings they have, which data match, which callbacks and
\* return values there were; and no assertion fails.
TrieFaithful ==
    /\ ok
    /\ apply(root, <<>>) = {s \in Strings : ref[s] # None}
    /\ \A d \in Data :
         IF multi THEN match(root, d) = UNION {ref[s] : s \in {e \in Strings : IsPrefix(e, d)}}
         ELSE check(root, d) = \E s \in Strings : IsPrefix(s, d) /\ ref[s] > 0

RECURSIVE Tight(_)
Tight(t) ==
    /\ t.live_nodes = Cardinality(Live(t))
    /\ Count(t) > 0 => t.table[1] # NoNode /\ t.table[Count(t)] # NoNode
    /\ \A i \in Live(t) : ~is_redundant(t.table[i]) /\ Tight(t.table[i])

\* No node is kept that serves no string, no table has empty slots at its
\* ends, and each node knows how many children it has.
TrieTight == Tight(root)
=============================================================================
