--------------------------- MODULE EchoMainProofs ---------------------------
(***************************************************************************)
(* Proofs about EchoMain, for every timeout and every period of the        *)
(* timers.                                                                 *)
(***************************************************************************)
EXTENDS EchoMain, TLAPS

Waiting ==
  {"wait", "wait_cntr", "wait_input", "timeout", "no_addr", "fallback"}

(* What each point of main may rely on: the client runs from dhcp_start    *)
(* on, and the wait ends by an address, which the client may take away     *)
(* right after, or by the counter.                                         *)
PcInv ==
  /\ dhcp = "off" <=> pc \in {"add", "returned", "dhcp"}
  /\ dhcp = "off" => ip_addr = "none"
  /\ pc = "timeout" => ip_addr # "none" \/ lost \/ dhcp_timoutcntr <= 0
  /\ pc \in InLoop \union {"start"} => ip_addr # "none" \/ lost

(* While main waits, the counter has not lost more ticks than were waited. *)
TimeoutInv ==
  /\ pc \in Waiting => \/ waited = DhcpTimeout
                       \/ waited + dhcp_timoutcntr >= DhcpTimeout
  /\ pc \in {"no_addr", "fallback"} => dhcp_timoutcntr <= 0
  /\ ip_addr = "fallback" => waited = DhcpTimeout

(* An address is leased only by the client, and between the last test and  *)
(* the fallback only at the price of a collision.                          *)
LeaseInv ==
  /\ dhcp = "bound" => ip_addr = "leased" \/ collided
  /\ ip_addr = "leased" => dhcp = "bound"
  /\ dhcp = "bound" => ip_addr # "none"
  /\ pc = "fallback" => ip_addr = "none" \/ collided

(* A period that ends during the call is the only one without a flag.      *)
FlagInv ==
  \A t \in Timers :
    /\ flag[t] /\ pc # t => due[t]
    /\ due[t] /\ ~flag[t] => during[t]
    /\ pc = t /\ due[t] => during[t]

IInv == TypeOK /\ PcInv /\ TimeoutInv /\ LeaseInv /\ FlagInv

(* Modulo a period, a count is a natural number.                           *)
LEMMA ModNat == \A a \in Nat, b \in Nat \ {0} : a % b \in Nat
OBVIOUS

LEMMA InitIInv == Init => IInv
<1> SUFFICES ASSUME Init PROVE IInv
  OBVIOUS
<1>1. TypeOK
  <2>1. /\ dhcp_timoutcntr \in CounterFloor .. DhcpTimeout
        /\ waited \in 0 .. DhcpTimeout
    BY EchoMainAssumption DEF Init, CounterFloor
  <2>2. /\ timer \in [DOMAIN Period -> Nat]
        /\ flag \in [Timers -> BOOLEAN] /\ due \in [Timers -> BOOLEAN]
        /\ during \in [Timers -> BOOLEAN]
        /\ collided \in BOOLEAN /\ lost \in BOOLEAN
    BY DEF Init
  <2> QED BY <2>1, <2>2 DEF Init, TypeOK
<1>2. PcInv /\ TimeoutInv /\ LeaseInv
  BY DEF Init, PcInv, TimeoutInv, LeaseInv, InLoop, Waiting
<1>3. FlagInv
  BY DEF Init, FlagInv
<1> QED BY <1>1, <1>2, <1>3 DEF IInv

(* What the client does to the address, wherever main is: it binds one, or *)
(* takes it away and asks again.                                           *)
ClientStep ==
  \/ UNCHANGED dhcpVars
  \/ /\ dhcp = "asking" /\ dhcp' = "checking"
     /\ UNCHANGED <<ip_addr, collided, lost>>
  \/ dhcp \in {"asking", "checking"} /\ Bind
  \/ dhcp # "off" /\ LoseAddress

(* It leaves what is said of the address true.                             *)
LEMMA ClientStepInv ==
  ASSUME TypeOK, PcInv, LeaseInv, ClientStep, pc' = pc,
         pc = "timeout" => dhcp_timoutcntr' <= dhcp_timoutcntr,
         dhcp_timoutcntr \in Int, dhcp_timoutcntr' \in Int
  PROVE  /\ ip_addr' \in {"none", "leased", "fallback"}
         /\ dhcp' \in {"off", "asking", "checking", "bound"}
         /\ collided' \in BOOLEAN /\ lost' \in BOOLEAN
         /\ PcInv' /\ LeaseInv'
         /\ ip_addr' = "fallback" => ip_addr = "fallback"
<1> USE DEF TypeOK, dhcpVars, PcInv, LeaseInv
<1>1. CASE UNCHANGED dhcpVars BY <1>1
<1>2. CASE /\ dhcp = "asking" /\ dhcp' = "checking"
           /\ UNCHANGED <<ip_addr, collided, lost>>
  BY <1>2
<1>3. CASE dhcp \in {"asking", "checking"} /\ Bind
  BY <1>3 DEF Bind
<1>4. CASE dhcp # "off" /\ LoseAddress
  <2>1. /\ dhcp' = "asking" /\ ip_addr' = "none" /\ collided' = collided
        /\ lost' = (lost \/ (ip_addr # "none" /\ pc \notin InWait))
        /\ pc' = pc
    BY <1>4 DEF LoseAddress
  <2>2. lost' \in BOOLEAN /\ LeaseInv'
    BY <2>1
  <2>3. pc \notin InWait /\ ip_addr # "none" => lost'
    BY <2>1
  <2>4. lost => lost'
    BY <2>1
  <2>5. pc = "timeout" => lost' \/ dhcp_timoutcntr <= 0
    BY <2>3, <2>4 DEF InWait
  <2>6. pc = "timeout" => lost' \/ dhcp_timoutcntr' <= 0
    BY <2>5
  <2>7. pc \in InLoop \union {"start"} => lost'
    BY <2>3, <2>4 DEF InWait, InLoop
  <2> QED BY <1>4, <2>1, <2>2, <2>6, <2>7
<1> QED BY <1>1, <1>2, <1>3, <1>4 DEF ClientStep

(* The interrupt, which may fall anywhere.                                 *)
LEMMA TimerCallbackIInv == IInv /\ TimerCallback => IInv'
<1> SUFFICES ASSUME IInv, TimerCallback PROVE IInv'
  OBVIOUS
<1> USE EchoMainAssumption DEF IInv
<1>1. ClientStep
  BY DEF TimerCallback, ClientTimers, ClientStep
<1>2. /\ pc' = pc
      /\ dhcp_timoutcntr' \in CounterFloor .. DhcpTimeout
      /\ dhcp_timoutcntr' <= dhcp_timoutcntr
      /\ dhcp_timoutcntr > CounterFloor =>
           dhcp_timoutcntr' = dhcp_timoutcntr - 1
      /\ waited' = IF dhcp # "off" /\ waited < DhcpTimeout THEN waited + 1
                                                           ELSE waited
  BY DEF TimerCallback, CountDown, TypeOK, CounterFloor
<1>3. timer' \in [DOMAIN Period -> Nat]
  <2>1. \A t \in DOMAIN Period : timer[t] \in Nat /\ Period[t] \in Nat \ {0}
    BY DEF Period, TypeOK
  <2>2. \A t \in DOMAIN Period : Count(t) \in Nat
    BY <2>1, ModNat DEF Count
  <2> QED BY <2>2 DEF TimerCallback
<1>4. /\ flag' \in [Timers -> BOOLEAN] /\ due' \in [Timers -> BOOLEAN]
      /\ during' \in [Timers -> BOOLEAN]
      /\ FlagInv'
  <2> DEFINE ended == {t \in Timers : Count(t) = 0}
  <2>1. /\ flag' = [t \in Timers |-> flag[t] \/ t \in ended]
        /\ due' = [t \in Timers |-> due[t] \/ t \in ended]
        /\ during' = [t \in Timers |->
                       during[t] \/ (t \in ended /\ pc = t)]
        /\ pc' = pc
    BY DEF TimerCallback
  <2> HIDE DEF ended
  <2>2. /\ flag' \in [Timers -> BOOLEAN] /\ due' \in [Timers -> BOOLEAN]
        /\ during' \in [Timers -> BOOLEAN]
    BY <2>1 DEF TypeOK
  <2>3. ASSUME NEW t \in Timers
        PROVE  /\ flag'[t] /\ pc' # t => due'[t]
               /\ due'[t] /\ ~flag'[t] => during'[t]
               /\ pc' = t /\ due'[t] => during'[t]
    <3>1. /\ flag'[t] <=> (flag[t] \/ t \in ended)
          /\ due'[t] <=> (due[t] \/ t \in ended)
          /\ during'[t] <=> (during[t] \/ (t \in ended /\ pc = t))
      BY <2>1, <2>3
    <3> QED BY <2>1, <2>3, <3>1 DEF FlagInv
  <2> QED BY <2>2, <2>3 DEF FlagInv
<1>5. /\ ip_addr' \in {"none", "leased", "fallback"}
      /\ dhcp' \in {"off", "asking", "checking", "bound"}
      /\ collided' \in BOOLEAN /\ lost' \in BOOLEAN
      /\ PcInv' /\ LeaseInv'
      /\ ip_addr' = "fallback" => ip_addr = "fallback"
  <2>1. dhcp_timoutcntr \in Int /\ dhcp_timoutcntr' \in Int
    BY <1>2 DEF TypeOK, CounterFloor
  <2> QED BY <1>1, <1>2, <2>1, ClientStepInv
<1>6. TypeOK'
  <2>1. waited' \in 0 .. DhcpTimeout
    BY <1>2 DEF TypeOK
  <2> QED BY <1>2, <1>3, <1>4, <1>5, <2>1 DEF TypeOK
<1>7. TimeoutInv'
  <2>1. /\ dhcp_timoutcntr \in Int /\ dhcp_timoutcntr' \in Int
        /\ dhcp_timoutcntr >= 0 /\ waited \in 0 .. DhcpTimeout
    BY <1>2 DEF TypeOK, CounterFloor
  <2>2. waited = DhcpTimeout => waited' = DhcpTimeout
    BY <1>2
  <2>3. pc \in Waiting => \/ waited' = DhcpTimeout
                         \/ waited' + dhcp_timoutcntr' >= DhcpTimeout
    <3> SUFFICES ASSUME pc \in Waiting, waited < DhcpTimeout
                 PROVE  waited' + dhcp_timoutcntr' >= DhcpTimeout
      BY <2>1, <2>2
    <3>1. waited + dhcp_timoutcntr >= DhcpTimeout
      BY <2>1 DEF TimeoutInv
    <3>2. dhcp_timoutcntr' = dhcp_timoutcntr - 1
      <4>1. dhcp_timoutcntr > 0
        BY <2>1, <3>1
      <4> QED BY <1>2, <4>1 DEF CounterFloor
    <3>3. waited' = waited + 1
      BY <1>2 DEF PcInv, Waiting
    <3> QED BY <2>1, <3>1, <3>2, <3>3
  <2>4. ip_addr' = "fallback" => ip_addr = "fallback"
    BY <1>5
  <2>5. pc \in {"no_addr", "fallback"} => dhcp_timoutcntr' <= 0
    <3> SUFFICES ASSUME pc \in {"no_addr", "fallback"}
                 PROVE  dhcp_timoutcntr' <= 0
      OBVIOUS
    <3>1. dhcp_timoutcntr <= 0
      BY DEF TimeoutInv
    <3>2. dhcp_timoutcntr' <= dhcp_timoutcntr
      BY <1>2
    <3> QED BY <2>1, <3>1, <3>2
  <2>6. pc' = pc
    BY <1>2
  <2> QED BY <2>2, <2>3, <2>4, <2>5, <2>6 DEF TimeoutInv
<1> QED BY <1>4, <1>5, <1>6, <1>7

(* An answer in xemacif_input.                                             *)
LEMMA InputIInv ==
  ASSUME NEW from, NEW to, IInv, Input(from, to),
         <<from, to>> \in {<<"wait_input", "wait">>,
                           <<"loop_input", "fast_test">>}
  PROVE  IInv'
<1> USE EchoMainAssumption DEF IInv
<1>1. /\ pc = from /\ pc' = to
      /\ UNCHANGED <<timer, waited, dhcp_timoutcntr, flag, due, during>>
  BY DEF Input, Goto, timerVars, flagVars
<1>2. \/ UNCHANGED dhcpVars
      \/ /\ dhcp = "asking" /\ dhcp' = "checking"
         /\ UNCHANGED <<ip_addr, collided, lost>>
      \/ dhcp = "asking" /\ Bind
      \/ dhcp # "off" /\ LoseAddress
  BY DEF Input
<1>3. \/ from = "wait_input" /\ to = "wait"
      \/ from = "loop_input" /\ to = "fast_test"
  OBVIOUS
<1>4. TypeOK'
  BY <1>1, <1>2, <1>3 DEF TypeOK, dhcpVars, Bind, LoseAddress, InLoop
<1>5. PcInv'
  BY <1>1, <1>2, <1>3
     DEF PcInv, TypeOK, dhcpVars, Bind, LoseAddress, InWait, InLoop
<1>6. TimeoutInv'
  BY <1>1, <1>2, <1>3 DEF TimeoutInv, dhcpVars, Bind, LoseAddress, Waiting
<1>7. LeaseInv'
  BY <1>1, <1>2, <1>3 DEF LeaseInv, dhcpVars, Bind, LoseAddress
<1>8. FlagInv'
  BY <1>1, <1>3 DEF FlagInv, Timers
<1> QED BY <1>4, <1>5, <1>6, <1>7, <1>8

(* main up to the start of the application.                                *)
LEMMA BootIInv ==
  IInv /\ (AddNetif \/ DhcpStart \/ WaitTest \/ WaitInput \/ TimeoutTest
           \/ SetFallback \/ StartApplication) => IInv'
<1> SUFFICES ASSUME IInv,
                    AddNetif \/ DhcpStart \/ WaitTest \/ WaitInput
                      \/ TimeoutTest \/ SetFallback \/ StartApplication
             PROVE  IInv'
  OBVIOUS
<1> USE EchoMainAssumption
        DEF IInv, TypeOK, PcInv, TimeoutInv, LeaseInv, FlagInv, Goto,
            timerVars, dhcpVars, flagVars, InLoop, Waiting, Timers,
            CounterFloor
<1>1. CASE AddNetif BY <1>1 DEF AddNetif
<1>2. CASE DhcpStart BY <1>2 DEF DhcpStart
<1>3. CASE WaitTest BY <1>3 DEF WaitTest
<1>4. CASE WaitInput
  BY <1>4, InputIInv DEF WaitInput
<1>5. CASE TimeoutTest BY <1>5 DEF TimeoutTest
<1>6. CASE SetFallback BY <1>6 DEF SetFallback
<1>7. CASE StartApplication BY <1>7 DEF StartApplication
<1> QED BY <1>1, <1>2, <1>3, <1>4, <1>5, <1>6, <1>7

(* The main loop.                                                          *)
LEMMA LoopIInv == IInv /\ Loop => IInv'
<1> SUFFICES ASSUME IInv, Loop PROVE IInv'
  OBVIOUS
<1> USE EchoMainAssumption DEF IInv
<1>1. ASSUME NEW t \in Timers, NEW from \in InLoop, NEW next \in InLoop,
             TestFlag(t, from, next), from \notin Timers, next \notin Timers
      PROVE  IInv'
  <2>1. /\ pc = from /\ pc' \in {next, t}
        /\ UNCHANGED <<timer, waited, dhcpVars, dhcp_timoutcntr, flag>>
    BY <1>1 DEF TestFlag, Goto, timerVars
  <2>2. ASSUME NEW u \in Timers
        PROVE  /\ due' \in [Timers -> BOOLEAN]
               /\ during' \in [Timers -> BOOLEAN]
               /\ flag'[u] /\ pc' # u => due'[u]
               /\ due'[u] /\ ~flag'[u] => during'[u]
               /\ pc' = u /\ due'[u] => during'[u]
    <3>1. CASE ~flag[t]
      BY <1>1, <2>1, <3>1 DEF TestFlag, Goto, FlagInv, TypeOK
    <3>2. CASE flag[t]
      <4>1. /\ pc' = t
            /\ due' = [due EXCEPT ![t] = FALSE]
            /\ during' = [during EXCEPT ![t] = FALSE]
        BY <1>1, <3>2 DEF TestFlag, Goto
      <4> QED BY <1>1, <2>1, <3>2, <4>1 DEF FlagInv, TypeOK
    <3> QED BY <3>1, <3>2
  <2>3. FlagInv'
    BY <2>2 DEF FlagInv
  <2>4. /\ due' \in [Timers -> BOOLEAN] /\ during' \in [Timers -> BOOLEAN]
    BY <2>2 DEF Timers
  <2>5. pc' \in InLoop
    BY <1>1, <2>1 DEF Timers, InLoop
  <2>6. TypeOK'
    BY <2>1, <2>4, <2>5 DEF TypeOK, dhcpVars
  <2>7. PcInv' /\ TimeoutInv' /\ LeaseInv'
    BY <1>1, <2>1, <2>5 DEF PcInv, TimeoutInv, LeaseInv, dhcpVars, InLoop,
                            Waiting
  <2> QED BY <2>3, <2>6, <2>7
<1>2. ASSUME NEW t \in Timers, NEW next \in InLoop,
             ClearFlag(t, next), next \notin Timers
      PROVE  IInv'
  BY <1>2 DEF ClearFlag, Goto, TypeOK, PcInv, TimeoutInv, LeaseInv, FlagInv,
              timerVars, dhcpVars, flagVars, InLoop, Waiting, Timers
<1>3. CASE TestFlag("fast", "fast_test", "slow_test")
  BY <1>1, <1>3 DEF Timers, InLoop
<1>4. CASE ClearFlag("fast", "slow_test")
  BY <1>2, <1>4 DEF Timers, InLoop
<1>5. CASE TestFlag("slow", "slow_test", "loop_input")
  BY <1>1, <1>5 DEF Timers, InLoop
<1>6. CASE ClearFlag("slow", "loop_input")
  BY <1>2, <1>6 DEF Timers, InLoop
<1>7. CASE Input("loop_input", "fast_test")
  BY <1>7, InputIInv
<1> QED BY <1>3, <1>4, <1>5, <1>6, <1>7 DEF Loop

LEMMA NextIInv == IInv /\ [Next]_vars => IInv'
<1> SUFFICES ASSUME IInv, [Next]_vars PROVE IInv'
  OBVIOUS
<1>1. CASE Main BY <1>1, BootIInv, LoopIInv DEF Main
<1>2. CASE TimerCallback BY <1>2, TimerCallbackIInv
<1>3. CASE UNCHANGED vars
  BY <1>3 DEF vars, dhcpVars, timerVars, flagVars, IInv, TypeOK, PcInv,
              TimeoutInv, LeaseInv, FlagInv
<1> QED BY <1>1, <1>2, <1>3 DEF Next

LEMMA Invariance == Spec => []IInv
BY InitIInv, NextIInv, PTL DEF Spec

(* The application starts with an address, and is without one only because *)
(* the client took it away after the wait, for every timeout and every     *)
(* interleaving of timer_callback with main's tests.                       *)
THEOREM StartsWithAddress == Spec => []AddressBeforeStart
<1>1. IInv => AddressBeforeStart
  BY DEF IInv, TypeOK, PcInv, LeaseInv, AddressBeforeStart, InLoop
<1> QED BY <1>1, Invariance, PTL

(* The fallback address is never taken before DhcpTimeout ticks, and a     *)
(* lease is replaced by it only in the window between the last test and    *)
(* the assignment.                                                         *)
THEOREM FallbackIsLast == Spec => []FallbackLast
<1>1. IInv => FallbackLast
  BY DEF IInv, TimeoutInv, LeaseInv, FallbackAfterTimeout, LeaseKept,
         FallbackLast
<1> QED BY <1>1, Invariance, PTL

(* tcp_fasttmr and tcp_slowtmr are called for ended periods only, and a    *)
(* period is lost only during a call.                                      *)
THEOREM TicksServed == Spec => [](TypeOK /\ TicksAccounted)
<1>1. IInv => TypeOK /\ TicksAccounted
  BY DEF IInv, FlagInv, CalledOnlyWhenDue, TickLostOnlyDuringCall,
         TicksAccounted
<1> QED BY <1>1, Invariance, PTL
=============================================================================
