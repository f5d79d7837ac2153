------------------------------ MODULE EchoMain ------------------------------
(***************************************************************************)
(* main of the echo server (main.c) against timer_callback (platform.c),   *)
(* which the 50 ms timer runs between any two of its steps: the wait for   *)
(* an address, the fallback address, and the flags that ask the main loop  *)
(* for tcp_fasttmr and tcp_slowtmr.                                        *)
(*                                                                         *)
(* A step of main reads or writes one of the variables they share.  What   *)
(* lwIP's DHCP client does is external: it binds an address in             *)
(* xemacif_input, or, if it checks for conflicts first, in acd_tmr, which  *)
(* timer_callback calls; and it may take the address away again, in        *)
(* xemacif_input or in its own timers, which timer_callback calls too.     *)
(***************************************************************************)
EXTENDS Integers

CONSTANTS
  DhcpTimeout,  \* ticks main waits for an address (240)
  FastTicks,    \* ticks between two calls of tcp_fasttmr (5)
  SlowTicks,    \* ticks between two calls of tcp_slowtmr (10)
  FineTicks,    \* ticks between two calls of dhcp_fine_tmr (10)
  CoarseTicks,  \* ticks between two calls of dhcp_coarse_tmr (1200)
  AcdTicks      \* ticks between two calls of acd_tmr (2)

ASSUME EchoMainAssumption ==
  /\ DhcpTimeout \in Nat \ {0}
  /\ FastTicks \in Nat \ {0} /\ SlowTicks \in Nat \ {0}
  /\ FineTicks \in Nat \ {0} /\ CoarseTicks \in Nat \ {0}
  /\ AcdTicks \in Nat \ {0}

VARIABLES
  pc,               \* main's next step
  ip_addr,          \* of echo_netif: "none", "leased" or "fallback"
  dhcp,             \* the client: "off", "asking", "checking" or "bound"
  dhcp_timoutcntr,  \* counted down by timer_callback
  timer,            \* Tcp_Fasttimer .. acd_timer, as counts
  flag,             \* TcpFastTmrFlag and TcpSlowTmrFlag
  waited,           \* history: ticks since dhcp_start
  due,              \* history: a period ended, and no call began since
  during,           \* history: a period ended during the call
  collided,         \* history: bound between the last test and the fallback
  lost              \* history: an address was taken away after the wait

Timers == {"fast", "slow"}
Period == [fast |-> FastTicks, slow |-> SlowTicks, fine |-> FineTicks,
           coarse |-> CoarseTicks, acd |-> AcdTicks]
timerVars == <<timer, waited>>
flagVars == <<flag, due, during>>
dhcpVars == <<ip_addr, dhcp, collided, lost>>
vars == <<pc, dhcpVars, dhcp_timoutcntr, timerVars, flagVars>>

(* The while loop that waits for an address.                               *)
InWait == {"wait", "wait_cntr", "wait_input"}

(* Bound: main asks only whether the counter is above 0.                   *)
CounterFloor == 0

Init ==
  /\ pc = "add" /\ ip_addr = "none" /\ dhcp = "off"
  /\ dhcp_timoutcntr = DhcpTimeout
  /\ timer = [t \in DOMAIN Period |-> 0]
  /\ flag = [t \in Timers |-> FALSE]
  /\ waited = 0 /\ collided = FALSE /\ lost = FALSE
  /\ due = [t \in Timers |-> FALSE] /\ during = [t \in Timers |-> FALSE]

(***************************************************************************)
(* The timer interrupt.                                                    *)
(***************************************************************************)
(* The client takes the address it was offered.                            *)
Bind ==
  /\ dhcp' = "bound" /\ ip_addr' = "leased"
  /\ collided' = (collided \/ pc = "fallback")
  /\ UNCHANGED lost

(* The client begins again, and the interface has no address any more.     *)
LoseAddress ==
  /\ dhcp' = "asking" /\ ip_addr' = "none"
  /\ lost' = (lost \/ (ip_addr # "none" /\ pc \notin InWait))
  /\ UNCHANGED collided

CountDown_Stuck == dhcp_timoutcntr' = dhcp_timoutcntr  \* mutant: no --

CountDown ==
  dhcp_timoutcntr' = IF dhcp_timoutcntr > CounterFloor
                       THEN dhcp_timoutcntr - 1 ELSE CounterFloor

Count(t) == (timer[t] + 1) % Period[t]

(* What the client's timers may do when they are called: dhcp_fine_tmr     *)
(* gives up a request that is not answered, dhcp_coarse_tmr a lease that   *)
(* has expired, and acd_tmr binds an address nobody else has claimed.      *)
ClientTimers ==
  \/ UNCHANGED dhcpVars
  \/ Count("fine") = 0 /\ dhcp \in {"asking", "checking"} /\ LoseAddress
  \/ Count("coarse") = 0 /\ dhcp = "bound" /\ LoseAddress
  \/ Count("acd") = 0 /\ dhcp = "checking" /\ Bind

TimerCallback ==
  LET ended == {t \in Timers : Count(t) = 0} IN
  /\ timer' = [t \in DOMAIN Period |-> Count(t)]
  /\ flag' = [t \in Timers |-> flag[t] \/ t \in ended]
  /\ due' = [t \in Timers |-> due[t] \/ t \in ended]
  /\ during' = [t \in Timers |-> during[t] \/ (t \in ended /\ pc = t)]
  /\ CountDown
  /\ waited' = IF dhcp # "off" /\ waited < DhcpTimeout THEN waited + 1
                                                       ELSE waited
  /\ ClientTimers
  /\ UNCHANGED pc

(***************************************************************************)
(* main.                                                                   *)
(***************************************************************************)
Goto(from, to) == pc = from /\ pc' = to /\ UNCHANGED timerVars

(* lwip_init, xemac_add, which may fail, and netif_set_up.                 *)
AddNetif ==
  /\ Goto("add", "dhcp") \/ Goto("add", "returned")
  /\ UNCHANGED <<dhcpVars, dhcp_timoutcntr, flagVars>>

DhcpStart ==
  \/ /\ Goto("dhcp", "set")
     /\ dhcp' = "asking"
     /\ UNCHANGED <<ip_addr, collided, lost, flagVars, dhcp_timoutcntr>>
  \/ /\ Goto("set", "wait")
     /\ dhcp_timoutcntr' = DhcpTimeout
     /\ UNCHANGED <<dhcpVars, flagVars>>

(* The two conditions of the while loop, read one after the other.         *)
WaitTest ==
  /\ \/ Goto("wait", IF ip_addr = "none" THEN "wait_cntr" ELSE "timeout")
     \/ Goto("wait_cntr", IF dhcp_timoutcntr > 0 THEN "wait_input"
                                                 ELSE "timeout")
  /\ UNCHANGED <<dhcpVars, dhcp_timoutcntr, flagVars>>

(* xemacif_input: an answer of the server is processed, or none.  A NAK,   *)
(* or another host that has the address, makes the client begin again.     *)
Input(from, to) ==
  /\ Goto(from, to)
  /\ \/ UNCHANGED dhcpVars
     \/ /\ dhcp = "asking" /\ dhcp' = "checking"
        /\ UNCHANGED <<ip_addr, collided, lost>>
     \/ dhcp = "asking" /\ Bind
     \/ dhcp # "off" /\ LoseAddress
  /\ UNCHANGED <<dhcp_timoutcntr, flagVars>>

WaitInput == Input("wait_input", "wait")

TimeoutTest_Below ==  \* mutant: < for <=
  /\ \/ Goto("timeout", IF dhcp_timoutcntr < 0 THEN "no_addr" ELSE "start")
     \/ Goto("no_addr", IF ip_addr = "none" THEN "fallback" ELSE "start")
  /\ UNCHANGED <<dhcpVars, dhcp_timoutcntr, flagVars>>

TimeoutTest_NoAddrTest ==  \* mutant: ip_addr is not tested again
  /\ Goto("timeout", IF dhcp_timoutcntr <= 0 THEN "fallback" ELSE "start")
  /\ UNCHANGED <<dhcpVars, dhcp_timoutcntr, flagVars>>

TimeoutTest ==
  /\ \/ Goto("timeout", IF dhcp_timoutcntr <= 0 THEN "no_addr" ELSE "start")
     \/ Goto("no_addr", IF ip_addr = "none" THEN "fallback" ELSE "start")
  /\ UNCHANGED <<dhcpVars, dhcp_timoutcntr, flagVars>>

SetFallback ==
  /\ Goto("fallback", "start")
  /\ ip_addr' = "fallback"
  /\ UNCHANGED <<dhcp, collided, lost, dhcp_timoutcntr, flagVars>>

StartApplication ==
  /\ Goto("start", "fast_test")
  /\ UNCHANGED <<dhcpVars, dhcp_timoutcntr, flagVars>>

(* The main loop: a call for each flag that is set, then input.            *)
TestFlag(t, from, next) ==
  /\ \/ ~flag[t] /\ Goto(from, next) /\ UNCHANGED <<due, during>>
     \/ /\ flag[t] /\ Goto(from, t)
        /\ due' = [due EXCEPT ![t] = FALSE]
        /\ during' = [during EXCEPT ![t] = FALSE]
  /\ UNCHANGED <<flag, dhcpVars, dhcp_timoutcntr>>

ClearFlag_Fast(t, next) ==  \* mutant: the line is copied from the fast timer
  /\ Goto(t, next)
  /\ flag' = [flag EXCEPT !["fast"] = FALSE]
  /\ UNCHANGED <<due, during, dhcpVars, dhcp_timoutcntr>>

(* tcp_fasttmr or tcp_slowtmr returns.                                     *)
ClearFlag(t, next) ==
  /\ Goto(t, next)
  /\ flag' = [flag EXCEPT ![t] = FALSE]
  /\ UNCHANGED <<due, during, dhcpVars, dhcp_timoutcntr>>

Loop ==
  \/ TestFlag("fast", "fast_test", "slow_test")
  \/ ClearFlag("fast", "slow_test")
  \/ TestFlag("slow", "slow_test", "loop_input")
  \/ ClearFlag("slow", "loop_input")
  \/ Input("loop_input", "fast_test")

Main ==
  \/ AddNetif \/ DhcpStart \/ WaitTest \/ WaitInput \/ TimeoutTest
  \/ SetFallback \/ StartApplication \/ Loop

Next == Main \/ TimerCallback

Spec == Init /\ [][Next]_vars

(* The main thread is interrupted and resumed; the timer does not stop.    *)
FairSpec == Spec /\ WF_vars(Main) /\ WF_vars(TimerCallback)
-----------------------------------------------------------------------------
InLoop == {"fast_test", "fast", "slow_test", "slow", "loop_input"}

TypeOK ==
  /\ pc \in {"add", "returned", "dhcp", "set", "wait", "wait_cntr",
             "wait_input", "timeout", "no_addr", "fallback", "start"}
            \union InLoop
  /\ ip_addr \in {"none", "leased", "fallback"}
  /\ dhcp \in {"off", "asking", "checking", "bound"}
  /\ dhcp_timoutcntr \in CounterFloor .. DhcpTimeout
  /\ timer \in [DOMAIN Period -> Nat]
  /\ flag \in [Timers -> BOOLEAN]
  /\ due \in [Timers -> BOOLEAN] /\ during \in [Timers -> BOOLEAN]
  /\ waited \in 0 .. DhcpTimeout
  /\ collided \in BOOLEAN /\ lost \in BOOLEAN

(* The application starts with an address, whichever way the wait ended    *)
(* and wherever ticks fell between its tests.  Then and later it is        *)
(* without one only because the client took it away after the wait (a      *)
(* lease expired, a request was refused or not answered), and only while   *)
(* the client asks for another.                                            *)
AddressBeforeStart ==
  pc \in InLoop \union {"start"} /\ ip_addr = "none" =>
    lost /\ dhcp \in {"asking", "checking"}

(* The fallback address is taken no earlier than the timeout after         *)
(* dhcp_start, however long the initialisation before it took.             *)
FallbackAfterTimeout == ip_addr = "fallback" => waited = DhcpTimeout

(* The fallback address does not replace one that the DHCP server gave,    *)
(* unless the timer interrupt bound it between the last test and the       *)
(* assignment.                                                             *)
LeaseKept == dhcp = "bound" => ip_addr = "leased" \/ collided

(* The fallback address comes last: after the timeout, and after a lease.  *)
FallbackLast == FallbackAfterTimeout /\ LeaseKept

(* tcp_fasttmr and tcp_slowtmr are called only when a period has ended     *)
(* since the last call began.                                              *)
CalledOnlyWhenDue == \A t \in Timers : flag[t] /\ pc # t => due[t]

(* A period is left without a call only when it ended while the call for   *)
(* the one before was still running.                                       *)
TickLostOnlyDuringCall == \A t \in Timers : due[t] /\ ~flag[t] => during[t]

(* The flags account for every period, whatever the interrupt meets.       *)
TicksAccounted == CalledOnlyWhenDue /\ TickLostOnlyDuringCall

(* No DHCP server is needed: the wait ends.                                *)
StartsOrReturns == <>(pc \in InLoop \union {"returned"})
=============================================================================
