-------------------------------- MODULE Channel --------------------------------
(***************************************************************************)
(* What a bounded queue promises its users: messages are delivered in the  *)
(* order they were sent, each exactly once, and at most Bound of them are  *)
(* under way.  Nothing is said about threads, locks or waiting.            *)
(***************************************************************************)
EXTENDS Naturals, Sequences

CONSTANTS Messages, Bound

VARIABLES sent, delivered    \* everything ever sent, everything ever delivered

channelVars == <<sent, delivered>>

ChannelInit == sent = << >> /\ delivered = << >>

Send == /\ Len(sent) < Len(delivered) + Bound
        /\ \E m \in Messages : sent' = Append(sent, m)
        /\ UNCHANGED delivered

Deliver == /\ Len(delivered) < Len(sent)
           /\ delivered' = Append(delivered, sent[Len(delivered) + 1])
           /\ UNCHANGED sent

ChannelNext == Send \/ Deliver

ChannelSafe == ChannelInit /\ [][ChannelNext]_channelVars

\* Whatever was sent is delivered.
ChannelSpec == ChannelSafe /\ WF_channelVars(Deliver)
==============================================================================
