------------------------------- MODULE PlcLink -------------------------------
(***************************************************************************)
(* What the polling loop relies on when it talks to a PLC through the      *)
(* trait PlcProtocol (server/src/protocol.rs): a read that succeeds        *)
(* returns, for each register, something the register has shown since the  *)
(* connection was opened.  It need not be the newest value, and values of  *)
(* an earlier connection never come back.  PlcClients implements this.     *)
(***************************************************************************)
CONSTANTS
    Regs,    \* the registers that are read
    Values,  \* what a register can show
    None     \* no read has succeeded yet

VARIABLES
    plc,     \* plc[r]: what the PLC shows now
    open,    \* is there a connection
    held,    \* held[r]: what r has shown since the connection was opened
    shown    \* the result of the last read that succeeded

linkVars == <<plc, open, held, shown>>

Init ==
    /\ plc \in [Regs -> Values]
    /\ open = FALSE
    /\ held = [r \in Regs |-> {}]
    /\ shown = [r \in Regs |-> None]

\* Some registers change.
Change ==
    /\ plc' \in [Regs -> Values]
    /\ held' = IF open THEN [r \in Regs |-> held[r] \cup {plc'[r]}] ELSE held
    /\ UNCHANGED <<open, shown>>

Open ==
    /\ ~open /\ open' = TRUE
    /\ held' = [r \in Regs |-> {plc[r]}]
    /\ UNCHANGED <<plc, shown>>

\* read_registers returns Ok.
Read ==
    /\ open
    /\ shown' \in [Regs -> Values]
    /\ \A r \in Regs : shown'[r] \in held[r]
    /\ UNCHANGED <<plc, open, held>>

Close ==
    /\ open /\ open' = FALSE
    /\ held' = [r \in Regs |-> {}]
    /\ UNCHANGED <<plc, shown>>

Next == Change \/ Open \/ Read \/ Close

Spec == Init /\ [][Next]_linkVars
=============================================================================
