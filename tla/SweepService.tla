---------------------------- MODULE SweepService ----------------------------
(***************************************************************************)
(* sweep.service.ts of cron-worker-service: executeSweep for one client    *)
(* and chain, under a lock in Redis that expires.  Runs overlap when one   *)
(* outlives the timeout of its cycle, or in another replica.               *)
(***************************************************************************)
EXTENDS ForwarderChain

CONSTANTS
    Sweeper,        \* runs of executeSweep
    Gated,          \* deposits a sweep policy may hold back for now
    Nobody          \* the value of the lock when it is free

ASSUME SweepAssumption == Nobody \notin Sweeper

VARIABLES
    lock,           \* sweep:lock:<chain>:<client>
    sweep           \* what each run has read, and the calls it has to send

SweepIdle == [pc |-> "idle", rows |-> {}, todo |-> {}, call |-> {}, tx |-> 0]

SweepPc == {"idle", "select", "inspect", "submit", "log", "mark", "publish",
            "release", "delete"}

SweepInit ==
    /\ lock = Nobody
    /\ sweep = [s \in Sweeper |-> SweepIdle]

SweepAt(s, pc) == sweep[s].pc = pc

SweepGoto(s, pc) == sweep' = [sweep EXCEPT ![s].pc = pc]

\* the deposits run s sends call T for
RowsOf(s, T) == OfTokens(sweep[s].rows, T)

\* one call for each coin, one for all the other tokens of the forwarder
Calls(T) == {{t} : t \in T \cap Native} \union ({T \ Native} \ {{}})

\* the coin first
IsNextCall(s, T) ==
    /\ T \in sweep[s].todo
    /\ T \subseteq Native \/ \A U \in sweep[s].todo : ~(U \subseteq Native)

\* go on with the next call, or end
EndCall(s, T) ==
    LET rest == sweep[s].todo \ {T}
    IN  sweep' = [sweep EXCEPT ![s] =
                    IF rest = {} THEN [SweepIdle EXCEPT !.pc = "release"]
                    ELSE [SweepIdle EXCEPT !.pc = "submit", !.rows = sweep[s].rows,
                                           !.todo = rest]]

-----------------------------------------------------------------------------

\* fault: SET without NX
AcquireAlways(s) ==
    /\ sweep[s] = SweepIdle
    /\ lock' = s
    /\ SweepGoto(s, "select")
    /\ UNCHANGED <<tables, chain>>

Acquire(s) ==
    /\ sweep[s] = SweepIdle
    /\ lock = Nobody
    /\ lock' = s
    /\ SweepGoto(s, "select")
    /\ UNCHANGED <<tables, chain>>

Selectable == {d \in Deposit : status[d] = "confirmed" /\ sweepTxHash[d] = 0}

\* those a policy does not hold back
Select(s) ==
    /\ SweepAt(s, "select")
    /\ \E D \in SUBSET Selectable :
        /\ Selectable \ Gated \subseteq D
        /\ sweep' = [sweep EXCEPT ![s].rows = D,
                                  ![s].pc = IF D = {} THEN "release" ELSE "inspect"]
    /\ UNCHANGED <<tables, chain, lock>>

\* the flag, the code, the balances: skip the forwarder, or send calls
Inspect(s) ==
    /\ SweepAt(s, "inspect")
    /\ LET T == {TokenOf[d] : d \in sweep[s].rows}
           funded == {t \in T : HasBalance(t)}
       IN  \/ /\ isDeployed /\ Deployed /\ funded # {}
              /\ sweep' = [sweep EXCEPT ![s].todo = Calls(funded), ![s].pc = "submit"]
           \/ /\ ~isDeployed \/ ~Deployed \/ funded = {} \/ Outages
              /\ sweep' = [sweep EXCEPT ![s] = [SweepIdle EXCEPT !.pc = "release"]]
    /\ UNCHANGED <<tables, chain, lock>>

Submit(s) ==
    /\ SweepAt(s, "submit")
    /\ \E T \in sweep[s].todo :
        /\ IsNextCall(s, T)
        /\ Send([kind |-> "flush", call |-> T, rows |-> RowsOf(s, T), state |-> "pending"])
        /\ sweep' = [sweep EXCEPT ![s].call = T, ![s].tx = Len(txs) + 1, ![s].pc = "log"]
    /\ UNCHANGED <<tables, place, lock>>

\* logSubmit swallows its errors
Log(s) ==
    /\ SweepAt(s, "log")
    /\ \/ gasTx' = [gasTx EXCEPT ![sweep[s].tx] = "submitted"]
       \/ Outages /\ UNCHANGED gasTx
    /\ SweepGoto(s, "mark")
    /\ UNCHANGED <<status, sweepTxHash, isDeployed, chain, lock>>

\* fault: the hash stored is that of the next transaction
MarkNext(s) ==
    /\ SweepAt(s, "mark")
    /\ SetStatus(RowsOf(s, sweep[s].call), "sweep_pending")
    /\ SetHash(RowsOf(s, sweep[s].call), sweep[s].tx + 1)
    /\ SweepGoto(s, "publish")
    /\ UNCHANGED <<isDeployed, gasTx, chain, lock>>

Mark(s) ==
    /\ SweepAt(s, "mark")
    /\ SetStatus(RowsOf(s, sweep[s].call), "sweep_pending")
    /\ SetHash(RowsOf(s, sweep[s].call), sweep[s].tx)
    /\ SweepGoto(s, "publish")
    /\ UNCHANGED <<isDeployed, gasTx, chain, lock>>

Publish(s) ==
    /\ SweepAt(s, "publish")
    /\ EndCall(s, sweep[s].call)
    /\ UNCHANGED <<tables, chain, lock>>

\* an error before or after the broadcast was accepted
CallFails(s) ==
    /\ Outages
    /\ \E T \in SUBSET Tokens :
        /\ \/ SweepAt(s, "submit") /\ IsNextCall(s, T)
           \/ sweep[s].pc \in {"log", "mark", "publish"} /\ T = sweep[s].call
        /\ SetStatus(RowsOf(s, T), "sweep_failed")
        /\ EndCall(s, T)
    /\ UNCHANGED <<sweepTxHash, isDeployed, gasTx, chain, lock>>

\* fault: the owner test is inverted
ReadLockWrong(s) ==
    /\ SweepAt(s, "release")
    /\ sweep' = [sweep EXCEPT ![s] = IF lock # s THEN [SweepIdle EXCEPT !.pc = "delete"]
                                                 ELSE SweepIdle]
    /\ UNCHANGED <<tables, chain, lock>>

ReadLock(s) ==
    /\ SweepAt(s, "release")
    /\ sweep' = [sweep EXCEPT ![s] = IF lock = s THEN [SweepIdle EXCEPT !.pc = "delete"]
                                                 ELSE SweepIdle]
    /\ UNCHANGED <<tables, chain, lock>>

\* whoever holds it by now
DeleteLock(s) ==
    /\ SweepAt(s, "delete")
    /\ lock' = Nobody
    /\ sweep' = [sweep EXCEPT ![s] = SweepIdle]
    /\ UNCHANGED <<tables, chain>>

\* after five minutes: its run died, or is slow
LockExpires ==
    /\ Outages
    /\ lock # Nobody
    /\ lock' = Nobody
    /\ UNCHANGED <<tables, chain, sweep>>

SweepDies(s) ==
    /\ Outages
    /\ sweep[s] # SweepIdle
    /\ sweep' = [sweep EXCEPT ![s] = SweepIdle]
    /\ UNCHANGED <<tables, chain, lock>>

Sweep(s) ==
    \/ Acquire(s) \/ Select(s) \/ Inspect(s) \/ Submit(s) \/ Log(s)
    \/ Mark(s) \/ Publish(s) \/ ReadLock(s) \/ DeleteLock(s)

SweepNext == (\E s \in Sweeper : Sweep(s) \/ CallFails(s) \/ SweepDies(s)) \/ LockExpires
=============================================================================
