--------------------------- MODULE DepositTracker ---------------------------
(***************************************************************************)
(* chain-indexer-service: the handler of the stream deposits:detected      *)
(* inserts the rows, confirmation-tracker.service.ts follows them.  The    *)
(* tracker reads a row and its receipt, publishes, and then updates the    *)
(* row by its id alone; a cycle that timed out goes on in the background,  *)
(* so that several checks may be under way.                                *)
(***************************************************************************)
EXTENDS ForwarderChain

CONSTANT Check      \* calls of checkDeposit under way at a time

VARIABLE check      \* what each read, and will write

NoCheck == [pc |-> "none"]

TrackerInit == check = [c \in Check |-> NoCheck]

EndCheck(c) == check' = [check EXCEPT ![c] = NoCheck]

\* fault: the upsert resets the status of the row it finds
PersistOverwrites(d) ==
    /\ place[d] # "sender"
    /\ SetStatus({d}, "pending")
    /\ UNCHANGED <<sweepTxHash, isDeployed, gasTx, chain, check>>

\* the event is from the realtime detector, which sees the transfer, or from
\* polling, which has seen the balance grow and counts it as confirmed; when
\* it is delivered again the row does not change
Persist(d) ==
    /\ place[d] # "sender"
    /\ status[d] = "none"
    /\ \/ SetStatus({d}, "pending")
       \/ /\ place[d] = "forwarder" \/ TokenOf[d] \notin Native
          /\ SetStatus({d}, "confirmed")
    /\ UNCHANGED <<sweepTxHash, isDeployed, gasTx, chain, check>>

\* the receipt is missing only from a node that lags behind
ReadConfirmations(c, d) ==
    /\ check[c] = NoCheck
    /\ status[d] \in {"pending", "confirming"}
    /\ \E s \in {"confirming", "confirmed", "reverted"} :
        /\ s = "reverted" => Outages
        /\ check' = [check EXCEPT ![c] = [pc |-> "write", d |-> d, status |-> s]]
    /\ UNCHANGED <<tables, chain>>

WriteConfirmations(c) ==
    /\ check[c] # NoCheck
    /\ SetStatus({check[c].d}, check[c].status)
    /\ EndCheck(c)
    /\ UNCHANGED <<sweepTxHash, isDeployed, gasTx, chain>>

CheckFails(c) ==
    /\ Outages
    /\ check[c] # NoCheck
    /\ EndCheck(c)
    /\ UNCHANGED <<tables, chain>>

Track(c) == (\E d \in Deposit : ReadConfirmations(c, d)) \/ WriteConfirmations(c)

TrackerNext ==
    \/ \E d \in Deposit : Persist(d)
    \/ \E c \in Check : Track(c) \/ CheckFails(c)
=============================================================================
