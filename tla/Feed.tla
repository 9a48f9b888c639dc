-------------------------------- MODULE Feed --------------------------------
(***************************************************************************)
(* What the WebSocket hub promises its clients: there is one order of all  *)
(* messages, and what a client has received is a subsequence of it. No     *)
(* client gets a message twice, and no two clients disagree on the order.  *)
(***************************************************************************)
EXTENDS Naturals, Sequences

CONSTANTS Clients, Messages

VARIABLES
  published,  \* the messages, in the order of the feed
  got         \* per client: the places in the feed of what it received, in order

feedVars == <<published, got>>

FeedInit ==
  /\ published = <<>>
  /\ got = [c \in Clients |-> <<>>]

\* Messages join the feed at its end.
Publish ==
  /\ published' \in Seq(Messages)
  /\ Len(published) <= Len(published')
  /\ published = SubSeq(published', 1, Len(published))
  /\ UNCHANGED got

\* A client receives a message later in the feed than all it has received.
Deliver(c, k) ==
  /\ \A i \in DOMAIN got[c] : got[c][i] < k
  /\ got' = [got EXCEPT ![c] = Append(@, k)]
  /\ UNCHANGED published

FeedNext == Publish \/ \E c \in Clients, k \in DOMAIN published : Deliver(c, k)

FeedSpec == FeedInit /\ [][FeedNext]_feedVars
=============================================================================
