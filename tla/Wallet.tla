------------------------------- MODULE Wallet -------------------------------
(***************************************************************************)
(* The coins of a bridge: packages/bridge/lib/persistent-store.js and who  *)
(* reads and writes it between two awaits - the address watcher, the fund, *)
(* send, register and deregister actions, the clean-up of the status       *)
(* server, its broadcast and unspent endpoints, and its stop().            *)
(*                                                                         *)
(* A transaction has at most one output to a watched address (of a bond,   *)
(* the change), which has its name and is worth 1.  Calls of the store are *)
(* steps, except that a read and the write that depends on it are two.     *)
(***************************************************************************)
EXTENDS Naturals, FiniteSets

CONSTANTS
  Tx,
  Plan    \* what happens: relayed, sent, funded and posted transactions, bonds,
          \* registrations and deregistrations; what the posted ones spend;
          \* coins a send or a stake needs; transactions received again
          \* (TxRelay forgets old ones); services (MCWallet)

\* A transaction has one role; one stake at a time is made.
ASSUME PlanAssumption ==
  \A p \in Plan :
    LET roles == <<p.relayed, p.funded, p.sent, p.posted, p.bonds, p.registers, p.leaves>>
    IN  /\ \A i \in 1 .. 7 : roles[i] \subseteq Tx
        /\ \A i, j \in 1 .. 7 : i # j => roles[i] \cap roles[j] = {}
        /\ \A b, d \in p.bonds : b = d
        /\ p.spends \subseteq Tx /\ p.listed \subseteq Tx /\ p.again \subseteq Tx /\ p.need \in Nat \ {0}

VARIABLES
  plan,
  txs,          \* transactions the store has the bytes of
  utxo,         \* [Tx -> state of its output in the store]
  recent,       \* outputs added in the last 120 seconds
  spentInputs,  \* outputs that were marked by a broadcast
  writing,      \* calls of spendUtxo that have read and not yet written
  inputs,       \* [Tx -> the outputs it spends]
  net,          \* transactions that the network has accepted,
  mined,        \* and those in a block
  offered,      \* transactions offered to our nodes
  watch,        \* [Tx -> the watcher's handler of it]
  job,          \* [Tx -> the job that makes it]
  fund,         \* [Tx -> the request that stores it]
  post,         \* [Tx -> the request that broadcasts it]
  list,         \* the request for the unspent outputs of an address
  clean,        \* the run of the clean-up
  server,       \* "up", "stopping", "closing" or "closed"
  crossed       \* history: outputs that were still to be stored when they
                \* had been dealt with as spent (Remember)

store   == <<txs, utxo, recent, spentInputs>>
world   == <<plan, net, mined>>
actors  == <<watch, job, fund, post, list, clean, server>>
bridge  == <<world, store, writing, inputs, offered, actors>>
walletVars == <<bridge, crossed>>

Idle(st) == [st |-> st, todo |-> {}]
NoList   == [st |-> "idle", todo |-> {}, ours |-> {}, fresh |-> {}, theirs |-> {}, heard |-> TRUE]
NoRun    == [st |-> "idle", todo |-> {}, txid |-> {}]

WalletTypeOK ==
  /\ plan \in Plan
  /\ txs \subseteq Tx /\ recent \subseteq Tx /\ spentInputs \subseteq Tx
  /\ utxo \in [Tx -> {"none", "unspent", "spent"}]
  /\ writing \subseteq {"watch", "send", "list"} \X Tx \X Tx
  /\ inputs \in [Tx -> SUBSET Tx]
  /\ mined \subseteq net /\ net \subseteq Tx /\ offered \subseteq Tx
  /\ \A t, u \in net : t # u => inputs[t] \cap inputs[u] = {}
  /\ watch \in [Tx -> [st : {"idle", "spends", "pays", "done"}, todo : SUBSET Tx]]
  /\ job \in [Tx -> [st : {"idle", "gather", "connect", "pushed", "mark", "change", "done", "failed"},
                     todo : SUBSET Tx]]
  /\ fund \in [Tx -> {"idle", "put", "done"}]
  /\ post \in [Tx -> [st : {"idle", "mark", "p2p", "arc", "woc", "ok", "refused", "unsure"}, todo : SUBSET Tx]]
  /\ list \in [st : {"idle", "fetch", "theirs", "ours", "done"}, todo : SUBSET Tx,
               ours : SUBSET Tx, fresh : SUBSET Tx, theirs : SUBSET Tx, heard : BOOLEAN]
  /\ clean \in [st : {"idle", "txs", "utxos", "drop"}, todo : SUBSET Tx, txid : SUBSET Tx]
  /\ \A t \in plan.sent : job[t].st \in {"pushed", "mark", "change", "done"}
                             => Cardinality(inputs[t]) = plan.need
  /\ server \in {"up", "stopping", "closing", "closed"} /\ crossed \subseteq Tx

WalletInit ==
  /\ plan \in Plan
  /\ txs = {} /\ utxo = [t \in Tx |-> "none"] /\ recent = {} /\ spentInputs = {}
  /\ writing = {}
  /\ inputs = [t \in Tx |-> IF t \in plan.posted THEN plan.spends ELSE {}]
  /\ net = {} /\ mined = {} /\ offered = {}
  /\ watch = [t \in Tx |-> Idle("idle")] /\ job = [t \in Tx |-> Idle("idle")]
  /\ fund = [t \in Tx |-> "idle"] /\ post = [t \in Tx |-> Idle("idle")]
  /\ list = NoList /\ clean = NoRun /\ server = "up" /\ crossed = {}

Unspent == {c \in Tx : utxo[c] = "unspent"}

------------------------------------------------------------------------------
(* The store.                                                              *)

PutTx(t)   == txs' = txs \cup {t}
PutUtxo(t) == utxo' = [utxo EXCEPT ![t] = "unspent"] /\ recent' = recent \cup {t}

\* spendUtxo reads the record, if there is one, and writes it back as spent.
SpendUtxo(who, t, c) ==
  writing' = IF utxo[c] = "none" THEN writing ELSE writing \cup {<<who, t, c>>}

SpendWritten(who) ==
  /\ \E w \in writing : /\ w[1] = who /\ writing' = writing \ {w}
                        /\ utxo' = [utxo EXCEPT ![w[3]] = "spent"]
  /\ UNCHANGED <<world, txs, recent, spentInputs, inputs, offered, actors>>

Awaits(who, t) == \E w \in writing : w[1] = who /\ w[2] = t

------------------------------------------------------------------------------
(* The network, and what it tells.                                         *)

Conflicts(t) == \E u \in net \ {t} : inputs[u] \cap inputs[t] # {}
Acceptable(t) == t \notin net /\ ~Conflicts(t)
AcceptedIf(accepted, t) == net' = IF accepted THEN net \cup {t} ELSE net

\* Somebody else's transaction, or one of ours that a node has asked for.
Accept(t) ==
  /\ t \in plan.relayed \cup plan.funded \cup offered /\ Acceptable(t)
  /\ net' = net \cup {t}
  /\ UNCHANGED <<plan, mined, store, writing, inputs, offered, actors>>

\* Blocks matter to the clean-up and to a listing, and age to a listing.
Mine(t) ==
  /\ t \in net \ mined /\ (plan.cleans \/ plan.listed # {})
  /\ mined' = mined \cup {t}
  /\ UNCHANGED <<plan, net, store, writing, inputs, offered, actors>>

\* What a listing in progress has read of the store ages as well, sooner than
\* a record that was put since.
Ages(c) ==
  /\ c \in recent \cup list.fresh /\ plan.listed # {}
  /\ \E remains \in {recent, recent \ {c}} : recent' = remains
  /\ list' = IF list.st = "fetch" THEN [list EXCEPT !.fresh = @ \ {c}] ELSE list
  /\ UNCHANGED <<world, txs, utxo, spentInputs, writing, inputs, offered, watch, job, fund, post, clean, server>>

------------------------------------------------------------------------------
(* AddressWatcher: one handler per transaction, none waits for another.    *)

Requests == UNCHANGED <<job, fund, post, list, clean, server>>
Made == plan.sent \cup plan.bonds \cup plan.registers \cup plan.leaves
Watched(t) == t \in plan.relayed \cup plan.funded \cup Made

\* As soon as it is seen, whatever has become of the outputs it spends, and
\* again if it is received again, when its handler is done.
OnTxNew(t) ==
  /\ t \in net \/ post[t].st \notin {"idle", "mark"}
  /\ watch[t].st = "idle" \/ (watch[t].st = "done" /\ t \in plan.again)
  /\ watch' = [watch EXCEPT ![t] = [st |-> "spends", todo |-> inputs[t]]]
  /\ Requests /\ UNCHANGED <<world, store, writing, inputs, offered>>

\* Mutant: the check is inverted.
IsSpent(c) == utxo[c] = "spent"
IsUnspent(c) == utxo[c] = "unspent"

HandleInput(t) ==
  /\ watch[t].st = "spends" /\ ~Awaits("watch", t)
  /\ \E c \in watch[t].todo :
       /\ watch' = [watch EXCEPT ![t].todo = @ \ {c}]
       /\ IF IsUnspent(c) THEN SpendUtxo("watch", t, c) ELSE UNCHANGED writing
  /\ Requests /\ UNCHANGED <<world, store, inputs, offered>>

HandleOutputs(t) ==
  /\ watch[t] = Idle("spends") /\ ~Awaits("watch", t)
  /\ watch' = [watch EXCEPT ![t].st = IF Watched(t) THEN "pays" ELSE "done"]
  /\ IF Watched(t) THEN PutTx(t) ELSE UNCHANGED txs
  /\ Requests /\ UNCHANGED <<world, utxo, recent, spentInputs, writing, inputs, offered>>

HandleMatch(t) ==
  /\ watch[t].st = "pays" /\ watch' = [watch EXCEPT ![t].st = "done"]
  /\ PutUtxo(t)
  /\ Requests /\ UNCHANGED <<world, txs, spentInputs, writing, inputs, offered>>

------------------------------------------------------------------------------
(* runFund; runSend, runRegister and runDeregister.                        *)

TakesRequests == server \in {"up", "stopping"}

Funding == UNCHANGED <<world, spentInputs, writing, inputs, offered, watch, job, post, list, clean, server>>

FundPuts(t) ==
  /\ fund' = [fund EXCEPT ![t] = "put"] /\ PutUtxo(t)
  /\ Funding /\ UNCHANGED txs

PostFund(t) == fund[t] = "idle" /\ TakesRequests /\ t \in plan.funded /\ FundPuts(t)

FundStores(t) ==
  /\ fund[t] = "put" /\ fund' = [fund EXCEPT ![t] = "done"] /\ PutTx(t)
  /\ Funding /\ UNCHANGED <<utxo, recent>>

JobGoes(t, st) == job' = [job EXCEPT ![t].st = st]
Job == UNCHANGED <<world, spentInputs, watch, fund, post, list, clean, server>>

\* A request starts a job and does not wait for it.
StartJob(t) ==
  /\ job[t].st = "idle" /\ TakesRequests
  /\ job' = [job EXCEPT ![t] = [st |-> IF Unspent = {} THEN "failed" ELSE "gather",
                                todo |-> Unspent]]
  /\ Job /\ UNCHANGED <<txs, utxo, recent, writing, inputs, offered>>

PostSend(t)       == t \in plan.sent /\ StartJob(t)
PostRegister(t)   == t \in plan.bonds /\ StartJob(t)
PostDeregister(t) == t \in plan.leaves /\ StartJob(t)

Enough(ins, rest) == Cardinality(ins) >= plan.need

\* A send gathers until there is enough, the other jobs all there is.
Outcome(t, ins, rest) ==
  IF t \in plan.sent /\ Enough(ins, rest) THEN "connect"
  ELSE IF rest # {} THEN "gather"
  ELSE IF t \in plan.sent \/ ins = {} THEN "failed" ELSE "connect"

\* getTx of one output after the other, which are the inputs if it is there.
Gathers(t) ==
  /\ job[t].st = "gather"
  /\ \E c \in job[t].todo :
       LET ins  == IF c \in txs THEN inputs[t] \cup {c} ELSE inputs[t]
           rest == job[t].todo \ {c}
       IN  /\ inputs' = [inputs EXCEPT ![t] = ins]
           /\ job' = [job EXCEPT ![t] = [todo |-> rest, st |-> Outcome(t, ins, rest)]]
  /\ Job /\ UNCHANGED <<txs, utxo, recent, writing, offered>>

SendGathers(t)       == t \in plan.sent /\ Gathers(t)
RegisterGathers(t)   == t \in plan.bonds /\ Gathers(t)
DeregisterGathers(t) == t \in plan.leaves /\ Gathers(t)

\* To the nodes of a client that the job connects and synchronises first.
Pushes(t, then) ==
  /\ job[t].st = "connect"
  /\ \/ JobGoes(t, then) /\ offered' = offered \cup {t}
     \/ JobGoes(t, "failed") /\ UNCHANGED offered
  /\ Job /\ UNCHANGED <<txs, utxo, recent, writing, inputs>>

SendPushes(t)       == t \in plan.sent /\ Pushes(t, "pushed")
RegisterPushes(t)   == t \in plan.bonds /\ Pushes(t, "pushed")
DeregisterPushes(t) == t \in plan.leaves /\ Pushes(t, "done")

\* The stake is what a registration needs; the rest of the inputs is change.
HasChange(t) == Cardinality(inputs[t]) > plan.need

\* After two seconds, the registration, which spends the change of the bond;
\* without change it fails, and the bond is out.
RegistrationPushed(t) ==
  /\ t \in plan.bonds /\ job[t].st = "pushed"
  /\ IF HasChange(t)
     THEN /\ JobGoes(t, "done")
          /\ inputs' = [r \in Tx |-> IF r \in plan.registers THEN {t} ELSE inputs[r]]
          /\ offered' = offered \cup plan.registers
     ELSE JobGoes(t, "failed") /\ UNCHANGED <<inputs, offered>>
  /\ Job /\ UNCHANGED <<txs, utxo, recent, writing>>

\* After two seconds; the other jobs mark and store nothing.
SendMarks(t) ==
  /\ t \in plan.sent /\ job[t].st = "pushed"
  /\ job' = [job EXCEPT ![t] = [st |-> "mark", todo |-> inputs[t]]]
  /\ Job /\ UNCHANGED <<txs, utxo, recent, writing, inputs, offered>>

SendMarksOne(t) ==
  /\ job[t].st = "mark" /\ ~Awaits("send", t)
  /\ \E c \in job[t].todo : /\ SpendUtxo("send", t, c)
                            /\ job' = [job EXCEPT ![t].todo = @ \ {c}]
  /\ Job /\ UNCHANGED <<txs, utxo, recent, inputs, offered>>

SendStores(t) ==
  /\ job[t] = Idle("mark") /\ ~Awaits("send", t)
  /\ PutTx(t) /\ JobGoes(t, "change")
  /\ Job /\ UNCHANGED <<utxo, recent, writing, inputs, offered>>

SendPutsChange(t) ==
  /\ job[t].st = "change" /\ PutUtxo(t) /\ JobGoes(t, "done")
  /\ Job /\ UNCHANGED <<txs, writing, inputs, offered>>

------------------------------------------------------------------------------
(* The broadcast endpoints: nodes, then ARC, then WhatsOnChain.            *)

PostGoes(t, st) == post' = [post EXCEPT ![t].st = st]
Posting == UNCHANGED <<plan, mined, utxo, recent, writing, inputs, watch, job, fund, list, clean, server>>

PostBroadcast(t) ==
  /\ post[t].st = "idle" /\ TakesRequests /\ t \in plan.posted
  /\ PostGoes(t, "p2p")
  /\ Posting /\ UNCHANGED <<txs, net, spentInputs, offered>>

\* This one also stores the transaction, and marks its inputs.
PostApiBroadcast(t) ==
  /\ post[t].st = "idle" /\ TakesRequests /\ t \in plan.posted
  /\ post' = [post EXCEPT ![t] = [st |-> "mark", todo |-> inputs[t]]] /\ PutTx(t)
  /\ Posting /\ UNCHANGED <<net, spentInputs, offered>>

MarkInputs(t) ==
  /\ post[t].st = "mark"
  /\ IF post[t].todo = {} THEN PostGoes(t, "p2p") /\ UNCHANGED spentInputs
     ELSE \E c \in post[t].todo : /\ spentInputs' = spentInputs \cup {c}
                                  /\ post' = [post EXCEPT ![t].todo = @ \ {c}]
  /\ Posting /\ UNCHANGED <<txs, net, offered>>

\* A node that does not have it asks for it within ten seconds, or none does.
\* It stays on offer for longer.
TryP2p(t) ==
  /\ post[t].st = "p2p"
  /\ \/ t \notin net /\ PostGoes(t, "ok") /\ AcceptedIf(Acceptable(t), t)
     \/ PostGoes(t, "arc") /\ UNCHANGED net
  /\ \E offers \in {offered, offered \cup {t}} : offered' = offers
  /\ Posting /\ UNCHANGED <<txs, spentInputs>>

\* ARC reports that it has sent it on, or only stored it, or does not answer.
TryArc(t) ==
  /\ post[t].st = "arc"
  /\ \/ plan.arc /\ (t \in net \/ Acceptable(t)) /\ PostGoes(t, "ok") /\ AcceptedIf(TRUE, t)
     \/ PostGoes(t, "woc") /\ \E accepted \in {FALSE, plan.arc /\ Acceptable(t)} : AcceptedIf(accepted, t)
  /\ Posting /\ UNCHANGED <<txs, spentInputs, offered>>

\* Mutant: only an accepted transaction is a success.
NewOnly(t) == Acceptable(t)
\* TX_ALREADY_KNOWN_RE: a refusal because it is known is a success.
NewOrKnown(t) == Acceptable(t) \/ t \in net

\* It accepts the transaction or has it, or refuses it for a conflict; or the
\* request fails, or the answer says neither, whatever has become of the
\* transaction.  The caller gets a 502 of the last two.
TryWoc(t) ==
  /\ post[t].st = "woc"
  /\ \/ PostGoes(t, IF NewOrKnown(t) THEN "ok" ELSE "refused") /\ AcceptedIf(Acceptable(t), t)
     \/ PostGoes(t, "unsure") /\ \E accepted \in {FALSE, Acceptable(t)} : AcceptedIf(accepted, t)
  /\ Posting /\ UNCHANGED <<txs, spentInputs, offered>>

------------------------------------------------------------------------------
(* GET /api/address/:addr/unspent, once.                                   *)

Listing == UNCHANGED <<world, txs, utxo, recent, inputs, offered, watch, job, fund, post, clean, server>>

GetUnspent ==
  /\ list.st = "idle" /\ TakesRequests /\ plan.listed # {}
  /\ LET ours == Unspent \cap plan.listed
     IN  list' = [list EXCEPT !.st = "fetch", !.ours = ours, !.fresh = ours \cap recent]
  /\ Listing /\ UNCHANGED <<spentInputs, writing>>

Indexed == {c \in net \cap plan.listed : \A t \in mined : c \notin inputs[t]}

\* GorillaPool is at most the 120 seconds behind of an output that came by the
\* network; a request that fails is an empty list.
GorillaPoolAnswers ==
  /\ list.st = "fetch"
  /\ \/ \E theirs \in SUBSET Indexed :
          /\ (Indexed \cap list.ours) \ (list.fresh \cup plan.sent \cup plan.funded) \subseteq theirs
          /\ list' = [list EXCEPT !.st = "theirs", !.theirs = theirs, !.todo = theirs]
     \/ list' = [list EXCEPT !.st = "theirs", !.heard = FALSE]
  /\ Listing /\ UNCHANGED <<spentInputs, writing>>

\* One of their outputs: the mark of a confirmed one is removed, one that
\* keeps its mark is not shown.
MergeTheirs ==
  /\ list.st = "theirs"
  /\ IF list.todo = {} THEN list' = [list EXCEPT !.st = "ours"] /\ UNCHANGED spentInputs
     ELSE \E c \in list.todo :
            /\ spentInputs' = IF c \in mined THEN spentInputs \ {c} ELSE spentInputs
            /\ list' = [list EXCEPT !.todo = @ \ {c},
                                    !.ours = IF c \in spentInputs' THEN @ ELSE @ \ {c}]
  /\ Listing /\ UNCHANGED writing

\* Mutant: what GorillaPool does not list is spent.
IsRecentNever(c) == FALSE
IsRecent(c) == c \in list.fresh

\* One that only we have: spent, unless it is recent.
MergeOurs ==
  /\ list.st = "ours" /\ ~\E c \in Tx : Awaits("list", c)
  /\ IF list.ours = {} THEN list' = [NoList EXCEPT !.st = "done"] /\ UNCHANGED writing
     ELSE \E c \in list.ours :
            /\ list' = [list EXCEPT !.ours = @ \ {c}]
            /\ IF IsRecent(c) THEN UNCHANGED writing ELSE SpendUtxo("list", c, c)
  /\ Listing /\ UNCHANGED spentInputs

------------------------------------------------------------------------------
(* startTxCleanup: a run drops the bytes of mined transactions, and then   *)
(* the unspent outputs of those that are not.  Runs do not overlap here.   *)

Cleaning == UNCHANGED <<world, spentInputs, writing, inputs, offered, watch, job, fund, post, list, server>>
ShuttingDown == server # "up"

CleanupStarts ==
  /\ clean.st = "idle" /\ ~ShuttingDown /\ plan.cleans
  /\ clean' = [NoRun EXCEPT !.st = "txs", !.todo = txs]
  /\ Cleaning /\ UNCHANGED <<txs, utxo, recent>>

\* The next transaction, the next pass, or the end.
CleanupLooks ==
  /\ clean.st \in {"txs", "utxos"} /\ clean.txid = {}
  /\ IF ShuttingDown \/ (clean.st = "utxos" /\ clean.todo = {}) THEN clean' = NoRun
     ELSE IF clean.todo = {} THEN clean' = [NoRun EXCEPT !.st = "utxos", !.todo = Unspent]
     ELSE \E t \in clean.todo : clean' = [clean EXCEPT !.todo = @ \ {t}, !.txid = {t}]
  /\ Cleaning /\ UNCHANGED <<txs, utxo, recent>>

\* Mutant: without a timeout, there may be no answer.
AnswersUntimed(t) ==
  IF ~plan.arc THEN {} ELSE {"not mined"} \cup (IF t \in mined THEN {"mined"} ELSE {})
\* ARC knows it as mined or not; an error response counts as not.
ArcAnswers(t) ==
  {"timeout"} \cup (IF ~plan.arc THEN {}
                    ELSE {"not mined"} \cup (IF t \in mined THEN {"mined"} ELSE {}))

CleanupAnswered ==
  \E t \in clean.txid : \E answer \in ArcAnswers(t) :
    /\ clean.st \in {"txs", "utxos"}
    /\ txs' = IF clean.st = "txs" /\ answer = "mined" /\ ~ShuttingDown THEN txs \ {t} ELSE txs
    /\ clean' = IF clean.st = "utxos" /\ answer = "not mined" /\ t \in Unspent /\ ~ShuttingDown
                THEN [clean EXCEPT !.st = "drop"] ELSE [clean EXCEPT !.txid = {}]
    /\ Cleaning /\ UNCHANGED <<utxo, recent>>

\* deleteUtxo of what was unspent.
CleanupDrops ==
  /\ clean.st = "drop" /\ clean' = [clean EXCEPT !.st = "utxos", !.txid = {}]
  /\ IF ShuttingDown THEN UNCHANGED <<utxo, recent>>
     ELSE /\ utxo' = [t \in Tx |-> IF t \in clean.txid THEN "none" ELSE utxo[t]]
          /\ recent' = recent \ clean.txid
  /\ Cleaning /\ UNCHANGED txs

------------------------------------------------------------------------------
(* Shutdown: stop() of the server, then the store is closed.               *)

ServerGoes(st) ==
  /\ server' = st
  /\ UNCHANGED <<world, store, writing, inputs, offered, watch, job, fund, post, list, clean>>

Busy == \/ list.st \notin {"idle", "done"}
        \/ \E t \in Tx : fund[t] = "put" \/ post[t].st \notin {"idle", "ok", "refused", "unsure"}

CleanupOver == clean.st = "idle"

Stop        == server = "up" /\ plan.stops /\ ServerGoes("stopping")
StopServer  == server = "stopping" /\ CleanupOver /\ ServerGoes("closing")
CloseStore  == server = "closing" /\ ~Busy /\ ServerGoes("closed")

------------------------------------------------------------------------------
WatchStep(t)  == OnTxNew(t) \/ HandleInput(t) \/ HandleOutputs(t) \/ HandleMatch(t)
JobStarts(t)  == PostSend(t) \/ PostRegister(t) \/ PostDeregister(t)
JobStep(t)    == \/ SendGathers(t) \/ SendPushes(t) \/ SendMarks(t)
                 \/ SendMarksOne(t) \/ SendStores(t) \/ SendPutsChange(t)
                 \/ RegisterGathers(t) \/ RegisterPushes(t) \/ RegistrationPushed(t)
                 \/ DeregisterGathers(t) \/ DeregisterPushes(t)
PostStep(t)   == MarkInputs(t) \/ TryP2p(t) \/ TryArc(t) \/ TryWoc(t)
ListStep      == GorillaPoolAnswers \/ MergeTheirs \/ MergeOurs
CleanupStep   == CleanupLooks \/ CleanupAnswered \/ CleanupDrops
StopStep      == StopServer \/ CloseStore

\* History: an output is overtaken when the watcher, a fund or a send is storing
\* it and the watcher or a send has dealt with it as spent.
Stores(c) == watch[c].st = "pays" \/ fund[c] = "put" \/ job[c].st = "change"
DealtWith(t, c) ==
  /\ c \in inputs[t]
  /\ \/ watch[t].st # "idle" /\ c \notin watch[t].todo
     \/ t \in plan.sent /\ job[t].st \in {"mark", "change", "done"} /\ c \notin job[t].todo
Overtaken == {c \in Tx : Stores(c) /\ \E t \in Tx : DealtWith(t, c)}
Remember  == crossed' = crossed \cup Overtaken'

Writers == {"watch", "send", "list"}

\* The process ends when the store is closed.
WalletNext ==
  /\ server # "closed"
  /\ \/ \E who \in Writers : SpendWritten(who)
     \/ GetUnspent \/ ListStep \/ CleanupStarts \/ CleanupStep
     \/ Stop \/ StopStep
     \/ \E t \in Tx : \/ Accept(t) \/ Mine(t) \/ Ages(t)
                      \/ WatchStep(t) \/ PostFund(t) \/ FundStores(t) \/ JobStarts(t) \/ JobStep(t)
                      \/ PostBroadcast(t) \/ PostApiBroadcast(t) \/ PostStep(t)
  /\ Remember

WalletSpec == WalletInit /\ [][WalletNext]_walletVars

\* The store answers; services and nodes answer or time out.
FairWalletSpec ==
  /\ WalletSpec
  /\ \A who \in Writers : WF_bridge(SpendWritten(who))
  /\ WF_bridge(ListStep) /\ WF_bridge(CleanupStep) /\ WF_bridge(StopStep)
  /\ \A t \in Tx : WF_bridge(FundStores(t)) /\ WF_bridge(JobStep(t)) /\ WF_bridge(PostStep(t))

------------------------------------------------------------------------------
(* Properties.                                                             *)

\* Once the watcher has handled a transaction, or a send is over, the store
\* does not offer what that transaction spends: the double reads and writes
\* of the watcher, a send, the clean-up and the unspent endpoint do not undo
\* one another's marks.  Except an output that was stored again, or for the
\* first time, while or after that: putUtxo writes over the mark, when a child
\* is handled beside or before its parent, the parent is received again, the
\* user funds it late, or a send and the watcher both store a change.
SpentIsRecorded ==
  \A t \in Tx :
    watch[t].st = "done" \/ (t \in plan.sent /\ job[t].st \in {"change", "done"})
      => inputs[t] \cap Unspent \subseteq crossed

\* Amounts and states fit, and what is spent is not offered.
CoinsConsistent == WalletTypeOK /\ SpentIsRecorded

\* A broadcast that fails because WhatsOnChain refused it is not in the
\* network, and stays out although our nodes may still ask for it: a wallet
\* may use its inputs again (status-server.js:1005).  Nothing is said of one
\* that fails because WhatsOnChain did not answer, or said something else:
\* the caller gets the same 502, and the network may have the transaction.
NoFalseFailure == \A t \in Tx : post[t].st = "refused" => t \notin net

\* An output that is in the network is called spent only if a transaction
\* that spends it was seen or submitted.  Except by a listing that GorillaPool
\* has not answered, which marks all that is not recent; and by any listing if
\* a send or the user stored the output, for that may be before the network
\* accepts it.
Spends(t, c) == c \in inputs[t] /\ (t \in net \cup offered \/ post[t].st # "idle")
OnlySpentMarked ==
  [][\A w \in writing' \ writing :
       \/ w[3] \notin net \/ \E t \in Tx : Spends(t, w[3])
       \/ (w[1] = "list" /\ ~list.heard)
       \/ (w[1] = "list" /\ w[3] \in plan.sent \cup plan.funded)]_walletVars

\* Every job, broadcast and listing ends, and so does a shutdown, although it
\* waits for the clean-up and for requests: the store is closed under neither.
EverythingEnds ==
  <>[](\/ server = "closed" /\ clean.st = "idle" /\ ~Busy
       \/ /\ server = "up" /\ list.st \in {"idle", "done"}
          /\ \A t \in Tx : /\ post[t].st \in {"idle", "ok", "refused", "unsure"}
                          /\ job[t].st \in {"idle", "done", "failed"})
==============================================================================
