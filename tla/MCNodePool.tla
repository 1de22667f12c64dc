----------------------------- MODULE MCNodePool -----------------------------
(* Worlds for model-checking NodePool.                                     *)
EXTENDS NodePool

CONSTANTS h1, h2, h3

Faults == [breaks |-> 0, slow |-> 0, inbound |-> 0, addrs |-> 0, stops |-> 0]
World == [seeds |-> {h1, h2}, dead |-> {}, foreign |-> {}, silent |-> Host, told |-> {}, v6 |-> {},
          tip |-> 0, gets |-> {}, sends |-> {}, waits |-> {}, left |-> Faults]

\* Two hosts that answer no dial, a pool of two, and one host that does.
Starving == [World EXCEPT !.seeds = Host, !.dead = {h1, h2}]
\* Two good hosts, a slow dial, a break: the maintenance drops a dialling peer.
Churning == [World EXCEPT !.left = [Faults EXCEPT !.breaks = 1, !.slow = 1]]
\* One that also dials us; a fetch, and the end.
Inbound == [World EXCEPT !.seeds = {h1}, !.gets = {1},
                         !.left = [Faults EXCEPT !.breaks = 1, !.inbound = 1, !.stops = 1]]
\* A node of another chain, which dials us, too; a host known from addr only.
Mixed == [World EXCEPT !.foreign = {h2}, !.told = {h3},
                       !.left = [Faults EXCEPT !.inbound = 1, !.addrs = 1]]
\* One node that answers, one that never does, blocks, a break, a waiting job.
Syncing == [World EXCEPT !.silent = {h2}, !.tip = 3, !.waits = {3},
                         !.left = [Faults EXCEPT !.breaks = 1]]
\* Two fetches of one transaction and a broadcast.
Calling == [World EXCEPT !.gets = {1, 2}, !.sends = {3},
                         !.left = [Faults EXCEPT !.breaks = 1]]

AllPlans == {Starving, Churning, Inbound, Mixed, Syncing, Calling}
==============================================================================
