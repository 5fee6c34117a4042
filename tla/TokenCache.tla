-------------------------------- MODULE TokenCache --------------------------------
(***************************************************************************)
(* What decoding with a cache promises its client: each sequence is a set  *)
(* of positions with the token decoded there; a batch continues its        *)
(* sequences without a gap and is taken in from the front, micro-batch by  *)
(* micro-batch; when it fails, what was taken in stays and the rest leaves *)
(* no trace; sequences can be cut, shared and dropped between batches;     *)
(* making room never drops a position and loses what was decoded there     *)
(* only if the copy fails.  LlamaDecode implements it with cells.          *)
(***************************************************************************)
EXTENDS Integers, Sequences

CONSTANTS Seqs, Positions, Token, Lost

VARIABLES
    content,        \* sequence -> set of <<position, token decoded there>>
    pending         \* tokens of the batch under way that are not taken in yet

vars == <<content, pending>>

PositionsOf(s) == {e[1] : e \in content[s]}
In(p, p0, p1) == p >= p0 /\ (p1 < 0 \/ p < p1)

Init == content = [s \in Seqs |-> {}] /\ pending = <<>>

\* The tokens of each sequence are consecutive and follow what it has.
Continues(batch, from) ==
    \A s \in Seqs :
        LET new == {batch[k].pos : k \in {j \in DOMAIN batch : batch[j].owner = s}}
        IN  /\ \A p, q \in new : \A r \in p .. q : r \in new
            /\ from[s] # {} /\ new # {} =>
                \E p \in from[s] : p + 1 \in new /\ \A q \in from[s] : q <= p

Submit ==
    /\ pending = <<>>
    /\ pending' \in Seq(Token) \ {<<>>}
    /\ \/ Continues(pending', [s \in Seqs |-> PositionsOf(s)]) /\ UNCHANGED content
       \/ \* the client discards everything and submits in one call
          /\ Continues(pending', [s \in Seqs |-> {}])
          /\ content' = [s \in Seqs |-> {}]

TakeIn ==
    \E n \in DOMAIN pending :
        /\ pending' = SubSeq(pending, n + 1, Len(pending))
        /\ content' = [s \in Seqs |-> content[s] \cup
                {<<pending[k].pos, pending[k]>> :
                    k \in {j \in 1 .. n : pending[j].owner = s}}]

GiveUp == pending # <<>> /\ pending' = <<>> /\ UNCHANGED content

Lose ==
    /\ pending # <<>> /\ UNCHANGED pending
    /\ \A s \in Seqs :
        /\ {e[1] : e \in content'[s]} = PositionsOf(s)
        /\ \A e \in content'[s] : e \in content[s] \/ e[2] = Lost

Remove(c, s, p0, p1) == [c EXCEPT ![s] = {e \in @ : ~In(e[1], p0, p1)}]

Share(c, s, d, p0, p1) ==
    [c EXCEPT ![d] = @ \cup {e \in c[s] : In(e[1], p0, p1)}]

Keep(c, s) == [t \in Seqs |-> IF t = s THEN c[t] ELSE {}]

Edit ==
    /\ pending = <<>> /\ UNCHANGED pending
    /\ \E old \in {content}, new \in {content'} :
        \/ new = [s \in Seqs |-> {}]
        \/ \E s \in Seqs : new = Keep(old, s)
        \/ \E s \in Seqs, p0 \in Positions, p1 \in {-1} \cup Positions :
            \/ new = Remove(old, s, p0, p1)
            \/ \E d \in Seqs : new = Share(old, s, d, p0, p1)

Next == Submit \/ TakeIn \/ GiveUp \/ Lose \/ Edit

Spec == Init /\ [][Next]_vars
===============================================================================
