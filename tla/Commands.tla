------------------------------ MODULE Commands ------------------------------
(***************************************************************************)
(* Processes of the command line that run the commands of CommandTable.    *)
(* sendTransaction estimates, submits and waits for one transaction after  *)
(* the other.  Several processes may use one wallet, and each may be       *)
(* killed at any step; what it sent stays in the mempool, in the order of  *)
(* nonces.                                                                 *)
(***************************************************************************)
EXTENDS CommandTable, FiniteSets

CONSTANTS Sessions,         \* processes that run commands, all with the same wallet
          Amounts,          \* GRT a command is given
          MaxCommands,      \* bound: commands run
          MaxSessionKills   \* bound: processes killed

ASSUME CommandsAssumption ==
  /\ Amounts \subseteq Nat \ {0}
  /\ MaxCommands \in Nat /\ MaxSessionKills \in Nat

VARIABLES paused,     \* whether the Controller is paused
          granted,    \* GRT of the wallet that each spender may pull
          mempool,    \* transactions submitted and not mined, by nonce
          session,    \* what each process does
          used        \* how much of each bound is used, and commands cut short
commandsVars == <<paused, granted, mempool, session, used>>

Spenders == {"Staking", "GNS", "Curation", "DisputeManager"}
Nobody == "nobody"  \* who waits for the transactions of a killed process
ASSUME NobodyAssumption == Nobody \notin Sessions

\* A process: its command and the step it is at; whether a file could not be
\* pinned; whether a transaction of it failed, and whether another one was
\* mined while it waited; how it ended.
NoCommand == [pc |-> "off", id |-> <<"", "">>, steps |-> <<>>, at |-> 1, unpinned |-> FALSE,
              reverted |-> FALSE, overtaken |-> FALSE, how |-> ""]
Current(p) == session[p].steps[session[p].at]
At(p, kind) ==
  /\ session[p].pc = "on"
  /\ session[p].at <= Len(session[p].steps)
  /\ Current(p).kind = kind

CommandsInit ==
  /\ paused = FALSE
  /\ granted = [s \in Spenders |-> 0]
  /\ mempool = <<>>
  /\ session = [p \in Sessions |-> NoCommand]
  /\ used = [runs |-> 0, kills |-> 0, cut |-> 0]

\* What ethers demands before it sends: sendTransaction pushes the overrides to
\* an array, and the contract has the function, with as many parameters.
Exists(step) ==
  /\ step.params = "array"
  /\ <<step.fn, step.n>> \in Interface[step.to]

\* Staking, GNS and Curation take no deposits while the Controller is paused,
\* and nobody pulls more than the wallet allows.
Succeeds(step) ==
  step.pulls > 0 =>
    /\ paused => step.to = "DisputeManager"
    /\ granted[step.to] >= step.pulls
Estimated(step) == step.gasLimit \/ Succeeds(step)

Ended(p, how) == session' = [session EXCEPT ![p].pc = "off", ![p].how = how]
NextStep(p) == session' = [session EXCEPT ![p].pc = "on", ![p].at = @ + 1]
CutShort(kills) == used' = [used EXCEPT !.kills = @ + kills, !.cut = @ + 1]

StartCommand(p, command) ==
  /\ session[p].pc = "off"
  /\ used.runs < MaxCommands
  /\ used' = [used EXCEPT !.runs = @ + 1]
  /\ session' = [session EXCEPT ![p] =
       [NoCommand EXCEPT !.pc = "on", !.id = <<command.group, command.name>>,
                         !.steps = command.steps]]
  /\ UNCHANGED <<paused, granted, mempool>>

\* pinMetadataToIPFS logs a failed upload and returns nothing, which no contract
\* takes for a hash.
PinFile(p) ==
  /\ At(p, "pin")
  /\ \E failed \in BOOLEAN :
       session' = [session EXCEPT ![p].at = @ + 1, ![p].unpinned = @ \/ failed]
  /\ UNCHANGED <<paused, granted, mempool, used>>

CallView(p) ==
  /\ At(p, "view")
  /\ Exists(Current(p))
  /\ NextStep(p)
  /\ UNCHANGED <<paused, granted, mempool, used>>

Mismatch(p) ==
  /\ At(p, "tx") \/ At(p, "view")
  /\ ~Exists(Current(p))
  /\ Ended(p, "mismatch")
  /\ CutShort(0)
  /\ UNCHANGED <<paused, granted, mempool>>

Submit(p) ==
  /\ At(p, "tx")
  /\ Exists(Current(p)) /\ ~session[p].unpinned
  /\ Estimated(Current(p))
  /\ mempool' = Append(mempool, [by |-> p, step |-> Current(p)])
  /\ session' = [session EXCEPT ![p].pc = "sent"]
  /\ UNCHANGED <<paused, granted, used>>

\* The estimation fails, for a reason modelled here or one of the contract's
\* own, or a parameter is undefined.
Refused(p) ==
  /\ At(p, "tx")
  /\ Exists(Current(p))
  /\ session[p].unpinned \/ ~Current(p).gasLimit
  /\ Ended(p, "refused")
  /\ CutShort(0)
  /\ UNCHANGED <<paused, granted, mempool>>

\* waitTransaction returns the receipt, and nobody looks at its status.
ReceivedUnmined(p) == TRUE
Received(p) == \A i \in DOMAIN mempool : mempool[i].by # p
Receive(p) ==
  /\ session[p].pc = "sent"
  /\ Received(p)
  /\ NextStep(p)
  /\ UNCHANGED <<paused, granted, mempool, used>>

FinishCommand(p) ==
  /\ session[p].pc = "on" /\ session[p].at > Len(session[p].steps)
  /\ Ended(p, "done")
  /\ used' = [used EXCEPT !.cut = IF session[p].reverted THEN @ + 1 ELSE @]
  /\ UNCHANGED <<paused, granted, mempool>>

KillSession(p) ==
  /\ session[p].pc # "off"
  /\ used.kills < MaxSessionKills
  /\ Ended(p, "killed")
  /\ CutShort(1)
  /\ mempool' = [i \in DOMAIN mempool |->
                   IF mempool[i].by = p THEN [mempool[i] EXCEPT !.by = Nobody] ELSE mempool[i]]
  /\ UNCHANGED <<paused, granted>>

\* The next transaction is mined: it succeeds, or it changes nothing.
MineTransaction ==
  /\ mempool # <<>>
  /\ LET tx == Head(mempool)
         ok == Succeeds(tx.step)
     IN /\ mempool' = Tail(mempool)
        /\ paused' = IF tx.step.fn = "setPaused" THEN SwitchesOn(tx.step.word) ELSE paused
        /\ granted' = [s \in Spenders |->
             IF s = tx.step.spender THEN tx.step.grants
             ELSE IF s = tx.step.to /\ ok THEN granted[s] - tx.step.pulls
             ELSE granted[s]]
        /\ session' = [p \in Sessions |->
             IF p = tx.by THEN [session[p] EXCEPT !.reverted = @ \/ ~ok]
             ELSE [session[p] EXCEPT !.overtaken = @ \/ session[p].pc = "sent"]]
  /\ UNCHANGED used

Run(p) == \/ \E amount \in Amounts : \E c \in AllCommands(amount) : StartCommand(p, c)
          \/ PinFile(p) \/ CallView(p) \/ Mismatch(p) \/ Submit(p) \/ Refused(p)
          \/ Receive(p) \/ FinishCommand(p) \/ KillSession(p)
CommandsNext == MineTransaction \/ \E p \in Sessions : Run(p)

CommandsSpec == CommandsInit /\ [][CommandsNext]_commandsVars
=============================================================================
