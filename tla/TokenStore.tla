----------------------------- MODULE TokenStore -----------------------------
(***************************************************************************)
(* The client's store of address validation tokens (token_store.go): a     *)
(* ring of the newest tokens per origin, in a list of origins that forgets *)
(* the origin used least recently.  Tokens are numbered in the order they  *)
(* are put.                                                                *)
(***************************************************************************)
EXTENDS Integers, Sequences, SequencesExt

CONSTANTS
    Origins,
    Capacity,              \* maxOrigins
    SingleOriginSize,      \* tokensPerOrigin
    MaxPut                 \* bound: tokens put

VARIABLES
    q,                     \* the origins, the one used last first
    caches,                \* per origin, its ring: tokens, len and p
    put,                   \* tokens put so far
    usable,                \* per origin, the tokens it should have, newest last
    popped                 \* what the last Pop returned, and what it should have

tsVars == <<q, caches, put, usable, popped>>

NoToken == 0
newSingleOriginTokenStore == [tokens |-> [k \in 0 .. SingleOriginSize - 1 |-> NoToken], len |-> 0, p |-> 0]

Init ==
    /\ q = <<>>
    /\ caches = [o \in Origins |-> newSingleOriginTokenStore]
    /\ put = 0
    /\ usable = [o \in Origins |-> <<>>]
    /\ popped = <<NoToken, NoToken>>

\* singleOriginTokenStore: Add overwrites the oldest token, Pop takes the newest.
index(i) == (i + SingleOriginSize) % SingleOriginSize
lesser(a, b) == IF a < b THEN a ELSE b

Add(c, token) ==
    [tokens |-> [c.tokens EXCEPT ![c.p] = token], p |-> index(c.p + 1), len |-> lesser(c.len + 1, SingleOriginSize)]

\* Mutant: the tokens of an origin are not counted down.
PopUncounted(c) ==
    LET p == index(c.p - 1)
    IN  [tokens |-> [c.tokens EXCEPT ![p] = NoToken], p |-> p, len |-> c.len]

PopSingle(c) ==
    LET p == index(c.p - 1)
    IN  [tokens |-> [c.tokens EXCEPT ![p] = NoToken], p |-> p, len |-> IF c.len = 0 THEN 0 ELSE c.len - 1]

moveToFront(o) == <<o>> \o SelectSeq(q, LAMBDA x : x # o)
newest(tokens) == IF Len(tokens) > SingleOriginSize THEN Tail(tokens) ELSE tokens

\* Put: a new origin takes the place of the one used least recently when the list is full.
Put(o) ==
    LET known == Contains(q, o)
        evicted == IF ~known /\ Len(q) = Capacity THEN {Last(q)} ELSE {}
    IN  /\ put < MaxPut
        /\ put' = put + 1
        /\ q' = IF evicted = {} THEN moveToFront(o) ELSE <<o>> \o Front(q)
        /\ caches' = [x \in Origins |->
                        CASE x = o /\ known -> Add(caches[o], put + 1)
                          [] x = o /\ ~known -> Add(newSingleOriginTokenStore, put + 1)
                          [] x \in evicted -> newSingleOriginTokenStore
                          [] OTHER -> caches[x]]
        /\ usable' = [x \in Origins |-> IF x = o THEN newest(Append(usable[o], put + 1))
                                        ELSE IF x \in evicted THEN <<>> ELSE usable[x]]
        /\ UNCHANGED popped

\* Pop: the newest token of the origin, which is forgotten with its last token.
Pop(o) ==
    /\ IF Contains(q, o)
       THEN LET c == PopSingle(caches[o])
            IN  /\ q' = IF c.len = 0 THEN SelectSeq(q, LAMBDA x : x # o) ELSE moveToFront(o)
                /\ caches' = [caches EXCEPT ![o] = c]
                /\ popped' = <<caches[o].tokens[c.p], IF usable[o] = <<>> THEN NoToken ELSE Last(usable[o])>>
                /\ usable' = [usable EXCEPT ![o] = IF @ = <<>> THEN @ ELSE Front(@)]
       ELSE /\ popped' = <<NoToken, NoToken>>
            /\ UNCHANGED <<q, caches, usable>>
    /\ UNCHANGED put

Next == \E o \in Origins : Put(o) \/ Pop(o)

Spec == Init /\ [][Next]_tsVars

\* The store gives out the newest token of an origin it has, each token at most once, and keeps an
\* origin exactly as long as it has a token for it; it never holds more origins than it may
\* (token_store.go).
TokensAreNewest ==
    /\ popped[1] = popped[2]
    /\ Len(q) <= Capacity /\ IsInjective(q)
    /\ \A o \in Origins : Contains(q, o) <=> usable[o] # <<>>
    /\ \A o \in Origins : Contains(q, o) => caches[o].len = Len(usable[o])
=============================================================================
