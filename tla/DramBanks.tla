----------------------------- MODULE DramBanks -----------------------------
(***************************************************************************)
(* The DRAM of one vault: its banks, the commands they receive from the    *)
(* vault controller and the timing they impose on later ones.              *)
(*                                                                         *)
(* The three objects of a vault (VaultController, CommandQueue, DRAM) call *)
(* each other and read each other's fields; their fields are the fields of *)
(* one record v, and a member function is an operator from v to v.  This   *)
(* module has the operators on the DRAM's fields; CommandQueue and Vault   *)
(* extend it.                                                              *)
(*                                                                         *)
(* Time: a next... field of the code is an absolute clock cycle that is    *)
(* only compared with the current one; here it is how many cycles it still *)
(* lies in the future (0 when reached), and DRAM::Update counts it down.   *)
(***************************************************************************)
EXTENDS Integers, FiniteSets, SequencesExt, FiniteSetsExt

CONSTANTS
  NUM_BANKS,  \* banks of a vault
  BL,         \* cycles of one access on the data bus: ADDRESS_MAPPING / 32
  T           \* timing parameters of ConfigDRAM.ini, in cycles

ASSUME DramConstants ==
  /\ NUM_BANKS \in Nat \ {0}
  /\ BL \in Nat \ {0}
  /\ T \in [{"CWL", "CL", "AL", "tRAS", "tRCD", "tRRD", "tRC", "tRP", "tCCD",
             "tRTP", "tWTR", "tWR", "tRFC", "tFAW", "tCKE", "tXP", "tCMD"} -> Nat]

Banks == 0 .. NUM_BANKS - 1

Later(a, b) == IF a > b THEN a ELSE b
Less1(n) == IF n > 0 THEN n - 1 ELSE 0

RL == T.AL + T.CL
WL == T.AL + T.CWL
READ_TO_PRE_DELAY == T.AL + BL \div 2 + Later(T.tRTP, T.tCCD) - T.tCCD
WRITE_TO_PRE_DELAY == WL + BL \div 2 + T.tWR
READ_TO_WRITE_DELAY == RL + T.tCCD + 2 - WL
READ_AUTOPRE_DELAY == T.AL + T.tRTP + T.tRP
WRITE_AUTOPRE_DELAY == WL + BL \div 2 + T.tWR + T.tRP
WRITE_TO_READ_DELAY_B == WL + BL \div 2 + T.tWTR

-----------------------------------------------------------------------------
(* Commands.  tag is the number of the request, 0 for PRECHARGE and        *)
(* REFRESH; last marks the last command of its request.                    *)

Reads == {"READ", "READ_P"}
Writes == {"WRITE", "WRITE_P"}
CommandType ==
  Reads \cup Writes \cup
    {"ACTIVATE", "PRECHARGE", "REFRESH", "READ_DATA", "WRITE_DATA"}

DRAMCommand ==
  [type: CommandType, tag: Nat, bank: Banks, row: Nat, last: BOOLEAN]

NewCommand(type, tag, bank, row, last) ==
  [type |-> type, tag |-> tag, bank |-> bank, row |-> row, last |-> last]

\* The NULL pointer.
NoCommand == NewCommand("NULL", 0, 0, 0, FALSE)

IsAccess(c) == c.type \in Reads \cup Writes

-----------------------------------------------------------------------------
(* Banks *)

BankState ==
  [state: {"IDLE", "ROW_ACTIVE", "PRECHARGING", "REFRESHING", "POWERDOWN", "AWAKING"},
   row: Nat, nextActivate: Nat, nextRead: Nat, nextWrite: Nat,
   nextPrecharge: Nat, nextPowerUp: Nat,
   lastCommand: CommandType \cup {"POWERDOWN_EXIT"}, countdown: Nat]

NewBank ==
  [state |-> "IDLE", row |-> 0, nextActivate |-> 0, nextRead |-> 0,
   nextWrite |-> 0, nextPrecharge |-> 0, nextPowerUp |-> 0,
   lastCommand |-> "PRECHARGE", countdown |-> 0]

\* What a command does to bank b; k is the command's own bank.
Activated(c, b, k) ==
  IF b = c.bank
  THEN [k EXCEPT !.state = "ROW_ACTIVE", !.lastCommand = "ACTIVATE",
                 !.row = c.row,
                 !.nextActivate = Later(T.tRC, @),
                 !.nextPrecharge = Later(T.tRAS, @),
                 !.nextRead = Later(T.tRCD - T.AL, @),
                 !.nextWrite = Later(T.tRCD - T.AL, @)]
  ELSE [k EXCEPT !.nextActivate = Later(T.tRRD, @)]

\* Mutant of AfterRead: a write need not wait for the data of the read.
AfterReadAnyWrite(k) == [k EXCEPT !.nextRead = Later(Later(T.tCCD, BL), @)]

AfterRead(k) ==
  [k EXCEPT !.nextRead = Later(Later(T.tCCD, BL), @),
            !.nextWrite = Later(READ_TO_WRITE_DELAY, @)]

AfterWrite(k) ==
  [k EXCEPT !.nextWrite = Later(Later(T.tCCD, BL), @),
            !.nextRead = Later(WRITE_TO_READ_DELAY_B, @)]

\* An access in bank k, without or with auto-precharge.
Accessed(k, type, toPrecharge) ==
  [k EXCEPT !.nextPrecharge = Later(toPrecharge, @), !.lastCommand = type]

AutoPrecharged(k, type, toPrecharge, toActivate) ==
  LET next == Later(toActivate, k.nextActivate)
  IN  [k EXCEPT !.nextActivate = next, !.nextRead = next, !.nextWrite = next,
                !.lastCommand = type, !.countdown = toPrecharge]

Column(c, b, k) ==
  LET all == IF c.type \in Reads THEN AfterRead(k) ELSE AfterWrite(k)
  IN  IF b # c.bank THEN all
      ELSE CASE c.type = "READ" -> Accessed(all, "READ", READ_TO_PRE_DELAY)
             [] c.type = "WRITE" -> Accessed(all, "WRITE", WRITE_TO_PRE_DELAY)
             [] c.type = "READ_P" ->
                  AutoPrecharged(all, "READ_P", READ_TO_PRE_DELAY, READ_AUTOPRE_DELAY)
             [] c.type = "WRITE_P" ->
                  AutoPrecharged(all, "WRITE_P", WRITE_TO_PRE_DELAY, WRITE_AUTOPRE_DELAY)

Precharged(k) ==
  [k EXCEPT !.state = "PRECHARGING", !.lastCommand = "PRECHARGE", !.row = 0,
            !.countdown = T.tRP, !.nextActivate = Later(T.tRP, @)]

Refreshed(k) ==
  [k EXCEPT !.nextActivate = T.tRFC, !.state = "REFRESHING",
            !.lastCommand = "REFRESH", !.countdown = T.tRFC]

Commanded(c, b, k) ==
  CASE c.type = "ACTIVATE" -> Activated(c, b, k)
    [] IsAccess(c) -> Column(c, b, k)
    [] c.type = "PRECHARGE" -> IF b = c.bank THEN Precharged(k) ELSE k
    [] c.type = "REFRESH" -> Refreshed(k)
    [] c.type = "WRITE_DATA" -> k

\* DRAM::receiveCMD.  A read also enters the queue of data to be returned.
ReceiveCMD(v, c) ==
  [v EXCEPT !.bank = [b \in Banks |-> Commanded(c, b, @[b])],
            !.readReturn = IF c.type \in Reads
                           THEN Append(@, <<[c EXCEPT !.type = "READ_DATA"], RL>>) ELSE @]

\* DRAM::powerDown and its use: only when all banks are idle.
EnterPowerDown(v) ==
  IF \A b \in Banks : v.bank[b].state = "IDLE"
  THEN [v EXCEPT !.powerDown = TRUE,
                 !.bank = [b \in Banks |-> [@[b] EXCEPT !.state = "POWERDOWN",
                                                        !.nextPowerUp = T.tCKE]]]
  ELSE v

\* DRAM::powerUp.
LeavePowerDown(v) ==
  [v EXCEPT !.powerDown = FALSE,
            !.bank = [b \in Banks |->
               [@[b] EXCEPT !.lastCommand = "POWERDOWN_EXIT", !.state = "AWAKING",
                            !.countdown = T.tXP, !.nextActivate = T.tXP]]]

\* The state change when the countdown of a bank ends.
CountdownOver(k) ==
  CASE k.lastCommand \in {"WRITE_P", "READ_P"} ->
         [k EXCEPT !.state = "PRECHARGING", !.lastCommand = "PRECHARGE",
                   !.countdown = T.tRP]
    [] k.lastCommand \in {"REFRESH", "PRECHARGE", "POWERDOWN_EXIT"} ->
         [k EXCEPT !.state = "IDLE", !.countdown = 0]
    [] OTHER -> [k EXCEPT !.countdown = 0]

\* One cycle of a bank, and of the time that its next... fields wait for.
BankCycle(k) ==
  LET n == IF k.countdown = 1 THEN CountdownOver(k)
           ELSE [k EXCEPT !.countdown = Less1(@)]
  IN  [n EXCEPT !.nextActivate = Less1(@), !.nextRead = Less1(@),
                !.nextWrite = Less1(@), !.nextPrecharge = Less1(@),
                !.nextPowerUp = Less1(@)]
=============================================================================
