-------------------------- MODULE ConnTimersProofs --------------------------
(***************************************************************************)
(* ConnTimers, proved for every set of options: whatever the limits are,    *)
(* and whatever is sent, heard, paused and closed in between, no peer is    *)
(* kept longer than they say, or dropped before.                           *)
(***************************************************************************)
EXTENDS ConnTimers, TLAPS

\* Nothing but a connection is closing, and output that waits is waited for.
ClosingOK ==
    /\ closing # "no" => phase = "connected"
    /\ phase = "connected" /\ output > 0 => writing

\* The totals of an object that is to connect again have been reset.
TotalsReset ==
    again /\ phase \in {"waiting", "connecting"} => m_bytes_read = 0 /\ m_bytes_written = 0

\* Until FirstDataInt has run, which is due, no time passes: the timers are as they were
\* armed, with nInitialTimeout.
JustConnected ==
    phase = "connected" /\ m_first_data_func =>
        /\ silent = 0 /\ resumed = 0 /\ stalled = 0
        /\ reading => read_timer = Armed(limits.read)
        /\ writing => write_timer = Armed(limits.write)

\* From then on the limits are those of the options.
LimitsSet ==
    phase = "connected" /\ ~m_first_data_func =>
        limits.read = opts.nRecvTimeout /\ limits.write = opts.nSendTimeout

\* What is left of the read timeout, and the time since the later of the two events that
\* arm it, make up the limit.
ReadTimed ==
    phase = "connected" /\ ~m_first_data_func /\ reading =>
        IF opts.nRecvTimeout = 0 THEN read_timer = Off
        ELSE /\ read_timer >= 0
             /\ \/ silent <= resumed /\ read_timer + silent = opts.nRecvTimeout
                \/ resumed <= silent /\ read_timer + resumed = opts.nRecvTimeout

\* So do what is left of the write timeout and the time the output has stalled. A write
\* event that has nothing to write is removed before any time passes.
WriteTimed ==
    phase = "connected" =>
        /\ output = 0 => stalled = 0
        /\ output = 0 /\ writing => write_timer = Armed(limits.write)
        /\ ~m_first_data_func /\ output > 0 =>
            IF opts.nSendTimeout = 0 THEN write_timer = Off
            ELSE write_timer >= 0 /\ write_timer + stalled = opts.nSendTimeout

Inv == /\ TypeOK /\ TimersBelong /\ TotalsRight
       /\ ClosingOK /\ TotalsReset /\ JustConnected /\ LimitsSet /\ ReadTimed /\ WriteTimed

\* The fields of the options; no limit is out of the ages' range.
LEMMA OptionFields ==
    ASSUME opts \in Options
    PROVE  /\ opts.nInitialTimeout \in Nat /\ opts.nRecvTimeout \in 0 .. Ages
           /\ opts.nSendTimeout \in 0 .. Ages /\ opts.nRetryInterval \in Nat
           /\ Ages \in Nat
BY ConstantsAssumption DEF Option

\* A timer that has just been armed runs, or there is no limit; it has not run out.
LEMMA ArmedTimer ==
    ASSUME NEW limit \in Nat
    PROVE  /\ Armed(limit) \in Nat \cup {Off} /\ Armed(limit) # 0
           /\ limit = 0 => Armed(limit) = Off
           /\ limit # 0 => Armed(limit) = limit
BY DEF Armed, Off

-----------------------------------------------------------------------------
(* The actions. *)

\* No connection, no timer.
LEMMA InitInv == Init => Inv
<1>1. SUFFICES ASSUME Init PROVE Inv
  OBVIOUS
<1> USE <1>1, ConstantsAssumption DEF Init
<1>2. TypeOK
  <2>1. 0 \in 0 .. ULongMod - 1 /\ 0 \in 0 .. Ages /\ 0 \in 0 .. MaxOutput
    OBVIOUS
  <2>2. {m_bytes_read, m_bytes_written, total_read, total_written} \subseteq 0 .. ULongMod - 1
    OBVIOUS
  <2>3. {silent, resumed, stalled} \subseteq 0 .. Ages
    OBVIOUS
  <2> QED BY <2>1, <2>2, <2>3 DEF TypeOK, Off
<1> QED BY <1>2 DEF Inv, TimersBelong, TotalsRight, ClosingOK, TotalsReset, JustConnected,
        LimitsSet, ReadTimed, WriteTimed

\* InitConnection.
LEMMA ConnectedInv == ASSUME Inv, Connected PROVE Inv'
<1> USE DEF Connected, bev, timers, totals, ages
<1>1. TypeOK /\ opts \in Options
  BY DEF Inv, TypeOK
<1> USE <1>1, OptionFields, ArmedTimer, ConstantsAssumption
<1>2. TypeOK'
  BY DEF TypeOK
<1>3. TimersBelong'
  BY DEF Inv, TimersBelong
<1>4. TotalsRight'
  BY DEF Inv, TotalsRight, TotalsReset
<1>5. ClosingOK'
  BY DEF ClosingOK
<1>6. TotalsReset'
  BY DEF TotalsReset
<1>7. JustConnected'
  BY DEF JustConnected
<1>8. LimitsSet'
  BY DEF LimitsSet
<1>9. ReadTimed'
  BY DEF ReadTimed
<1>10. WriteTimed'
  BY DEF WriteTimed
<1> QED BY <1>2, <1>3, <1>4, <1>5, <1>6, <1>7, <1>8, <1>9, <1>10 DEF Inv

\* The limits of the options replace nInitialTimeout before any time has passed.
LEMMA FirstDataIntInv == ASSUME Inv, FirstDataInt PROVE Inv'
<1> USE DEF FirstDataInt, bev, timers, totals, ages
<1>1. TypeOK /\ opts \in Options
  BY DEF Inv, TypeOK
<1> USE <1>1, OptionFields, ArmedTimer
<1>2. TypeOK'
  BY DEF TypeOK, SetTimeouts
<1>3. TimersBelong'
  BY DEF Inv, TimersBelong
<1>4. TotalsRight'
  BY DEF Inv, TotalsRight
<1>5. ClosingOK'
  BY DEF Inv, ClosingOK
<1>6. TotalsReset'
  BY DEF Inv, TotalsReset
<1>7. JustConnected'
  BY DEF JustConnected
<1>8. LimitsSet'
  BY DEF LimitsSet, SetTimeouts
<1>9. ReadTimed'
  BY DEF Inv, ReadTimed, JustConnected, SetTimeouts
<1>10. WriteTimed'
  BY DEF Inv, WriteTimed, JustConnected, ClosingOK, SetTimeouts
<1> QED BY <1>2, <1>3, <1>4, <1>5, <1>6, <1>7, <1>8, <1>9, <1>10 DEF Inv

\* Data arrives: the read timer starts anew with the silence.
LEMMA HeardInv == ASSUME Inv, Heard PROVE Inv'
<1> USE DEF Heard, bev, timers, totals, ages
<1>1. TypeOK /\ opts \in Options
  BY DEF Inv, TypeOK
<1> USE <1>1, OptionFields, ArmedTimer, ConstantsAssumption
<1>2. TypeOK'
  BY DEF TypeOK
<1>3. TimersBelong'
  BY DEF Inv, TimersBelong
<1>4. TotalsRight'
  BY DEF Inv, TotalsRight
<1>5. ClosingOK'
  BY DEF Inv, ClosingOK
<1>6. TotalsReset'
  BY DEF TotalsReset
<1>7. JustConnected'
  BY DEF Inv, JustConnected
<1>8. LimitsSet'
  BY DEF Inv, LimitsSet
<1>9. ReadTimed'
  BY DEF Inv, TypeOK, ReadTimed, LimitsSet
<1>10. WriteTimed'
  BY DEF Inv, WriteTimed
<1> QED BY <1>2, <1>3, <1>4, <1>5, <1>6, <1>7, <1>8, <1>9, <1>10 DEF Inv

\* The socket takes some of the output: the write timer and the stall start anew.
LEMMA WrittenInv == ASSUME Inv, NEW n \in 1 .. MaxOutput, Written(n) PROVE Inv'
<1> USE DEF Written, bev, timers, totals, ages
<1>1. TypeOK /\ opts \in Options
  BY DEF Inv, TypeOK
<1> USE <1>1, OptionFields, ArmedTimer, ConstantsAssumption
<1>2. TypeOK'
  <2>1. output \in 0 .. MaxOutput /\ output' \in 0 .. MaxOutput
    BY DEF TypeOK
  <2>2. write_timer' \in Nat \cup {Off} /\ (write_timer' # Off => writing')
    BY DEF TypeOK
  <2>3. {m_bytes_read', m_bytes_written', total_read', total_written'} \subseteq 0 .. ULongMod - 1
    BY DEF TypeOK
  <2>4. {silent', resumed', stalled'} \subseteq 0 .. Ages
    BY DEF TypeOK
  <2>5. closing' \in {"no", "waiting", "drained"} /\ writing' \in BOOLEAN
    BY DEF TypeOK
  <2>6. \A timer \in {read_timer', write_timer', m_reconnect_func', m_ping_timeout_func'} :
            timer \in Nat \cup {Off}
    BY DEF TypeOK
  <2> QED BY <2>1, <2>2, <2>3, <2>4, <2>5, <2>6 DEF TypeOK
<1>3. TimersBelong'
  BY DEF Inv, TimersBelong
<1>4. TotalsRight'
  BY DEF Inv, TotalsRight
<1>5. ClosingOK'
  BY DEF ClosingOK
<1>6. TotalsReset'
  BY DEF TotalsReset
<1>7. JustConnected'
  BY DEF Inv, JustConnected
<1>8. LimitsSet'
  BY DEF Inv, LimitsSet
<1>9. ReadTimed'
  BY DEF Inv, ReadTimed
<1>10. WriteTimed'
  <2>1. /\ output \in 0 .. MaxOutput /\ output' = output - n /\ stalled' = 0
        /\ writing' = (output' > 0) /\ phase = "connected" /\ UNCHANGED <<opts, phase, limits>>
        /\ write_timer' = IF output' > 0 THEN Armed(limits.write) ELSE Off
        /\ m_first_data_func' = m_first_data_func
    BY DEF TypeOK
  <2>2. ~m_first_data_func => limits.write = opts.nSendTimeout
    BY DEF Inv, LimitsSet
  <2> HIDE DEF Written
  <2>3. output' = 0 => ~writing'
    <3>1. output' = 0 => ~(output' > 0)
      OBVIOUS
    <3> QED BY <2>1, <3>1, Zenon
  <2>4. output' > 0 /\ ~m_first_data_func' =>
            IF opts.nSendTimeout = 0 THEN write_timer' = Off
            ELSE write_timer' >= 0 /\ write_timer' + stalled' = opts.nSendTimeout
    BY <2>1, <2>2
  <2> QED BY <2>1, <2>3, <2>4 DEF WriteTimed
<1> QED BY <1>2, <1>3, <1>4, <1>5, <1>6, <1>7, <1>8, <1>9, <1>10 DEF Inv

\* The write event goes away once it finds nothing to write.
LEMMA NothingToWriteInv == ASSUME Inv, NothingToWrite PROVE Inv'
<1> USE DEF NothingToWrite, bev, timers, totals, ages
<1>1. TypeOK /\ opts \in Options
  BY DEF Inv, TypeOK
<1> USE <1>1, OptionFields
<1>2. TypeOK'
  BY DEF TypeOK
<1>3. TimersBelong'
  BY DEF Inv, TimersBelong
<1>4. TotalsRight'
  BY DEF Inv, TotalsRight
<1>5. ClosingOK'
  BY DEF ClosingOK
<1>6. TotalsReset'
  BY DEF TotalsReset
<1>7. JustConnected'
  BY DEF Inv, JustConnected
<1>8. LimitsSet'
  BY DEF Inv, LimitsSet
<1>9. ReadTimed'
  BY DEF Inv, ReadTimed
<1>10. WriteTimed'
  BY DEF Inv, WriteTimed
<1> QED BY <1>2, <1>3, <1>4, <1>5, <1>6, <1>7, <1>8, <1>9, <1>10 DEF Inv

\* Adding to output that waits does not arm the timer anew, whoever adds.
LEMMA SendInv == ASSUME Inv, Send PROVE Inv'
<1> USE DEF Send, bev, timers, totals, ages
<1>1. TypeOK /\ opts \in Options
  BY DEF Inv, TypeOK
<1> USE <1>1, OptionFields, ArmedTimer, ConstantsAssumption
<1>2. TypeOK'
  BY DEF TypeOK
<1>3. TimersBelong'
  BY DEF Inv, TimersBelong
<1>4. TotalsRight'
  BY DEF Inv, TotalsRight
<1>5. ClosingOK'
  BY DEF ClosingOK
<1>6. TotalsReset'
  BY DEF TotalsReset
<1>7. JustConnected'
  BY DEF Inv, JustConnected
<1>8. LimitsSet'
  BY DEF Inv, LimitsSet
<1>9. ReadTimed'
  BY DEF Inv, ReadTimed
<1>10. WriteTimed'
  BY DEF Inv, TypeOK, WriteTimed, LimitsSet, ClosingOK
<1> QED BY <1>2, <1>3, <1>4, <1>5, <1>6, <1>7, <1>8, <1>9, <1>10 DEF Inv

\* Nobody waits for data that is not read.
LEMMA PauseRecvInv == ASSUME Inv, PauseRecv PROVE Inv'
<1> USE DEF PauseRecv, bev, timers, totals, ages
<1>1. TypeOK /\ opts \in Options
  BY DEF Inv, TypeOK
<1> USE <1>1, OptionFields
<1>2. TypeOK'
  BY DEF TypeOK
<1>3. TimersBelong'
  BY DEF Inv, TimersBelong
<1>4. TotalsRight'
  BY DEF Inv, TotalsRight
<1>5. ClosingOK'
  BY DEF Inv, ClosingOK
<1>6. TotalsReset'
  BY DEF TotalsReset
<1>7. JustConnected'
  BY DEF Inv, JustConnected
<1>8. LimitsSet'
  BY DEF Inv, LimitsSet
<1>9. ReadTimed'
  BY DEF ReadTimed
<1>10. WriteTimed'
  BY DEF Inv, WriteTimed
<1> QED BY <1>2, <1>3, <1>4, <1>5, <1>6, <1>7, <1>8, <1>9, <1>10 DEF Inv

\* From here on the peer has the whole limit again.
LEMMA UnpauseRecvInv == ASSUME Inv, UnpauseRecv PROVE Inv'
<1> USE DEF UnpauseRecv, bev, timers, totals, ages
<1>1. TypeOK /\ opts \in Options
  BY DEF Inv, TypeOK
<1> USE <1>1, OptionFields, ArmedTimer
<1>2. TypeOK'
  BY DEF TypeOK
<1>3. TimersBelong'
  BY DEF Inv, TimersBelong
<1>4. TotalsRight'
  BY DEF Inv, TotalsRight
<1>5. ClosingOK'
  BY DEF Inv, ClosingOK
<1>6. TotalsReset'
  BY DEF TotalsReset
<1>7. JustConnected'
  BY DEF Inv, JustConnected
<1>8. LimitsSet'
  BY DEF Inv, LimitsSet
<1>9. ReadTimed'
  BY DEF Inv, TypeOK, ReadTimed, LimitsSet
<1>10. WriteTimed'
  BY DEF Inv, WriteTimed
<1> QED BY <1>2, <1>3, <1>4, <1>5, <1>6, <1>7, <1>8, <1>9, <1>10 DEF Inv

\* The ping timer is apart from the two timeouts.
LEMMA ResetPingTimeoutInv == ASSUME Inv, NEW seconds \in Pings, ResetPingTimeout(seconds) PROVE Inv'
<1> USE DEF ResetPingTimeout, bev, timers, totals, ages
<1>1. TypeOK /\ opts \in Options
  BY DEF Inv, TypeOK
<1> USE <1>1, OptionFields, ConstantsAssumption
<1>2. TypeOK'
  BY DEF TypeOK
<1>3. TimersBelong'
  BY DEF Inv, TimersBelong
<1>4. TotalsRight'
  BY DEF Inv, TotalsRight
<1>5. ClosingOK'
  BY DEF Inv, ClosingOK
<1>6. TotalsReset'
  BY DEF TotalsReset
<1>7. JustConnected'
  BY DEF Inv, JustConnected
<1>8. LimitsSet'
  BY DEF Inv, LimitsSet
<1>9. ReadTimed'
  BY DEF Inv, ReadTimed
<1>10. WriteTimed'
  BY DEF Inv, WriteTimed
<1> QED BY <1>2, <1>3, <1>4, <1>5, <1>6, <1>7, <1>8, <1>9, <1>10 DEF Inv

\* It disconnects nobody.
LEMMA PingTimeoutIntInv == ASSUME Inv, PingTimeoutInt PROVE Inv'
<1> USE DEF PingTimeoutInt, bev, timers, totals, ages
<1>1. TypeOK /\ opts \in Options
  BY DEF Inv, TypeOK
<1> USE <1>1, OptionFields
<1>2. TypeOK'
  BY DEF TypeOK
<1>3. TimersBelong'
  BY DEF Inv, TimersBelong
<1>4. TotalsRight'
  BY DEF Inv, TotalsRight
<1>5. ClosingOK'
  BY DEF Inv, ClosingOK
<1>6. TotalsReset'
  BY DEF Inv, TotalsReset
<1>7. JustConnected'
  BY DEF Inv, JustConnected
<1>8. LimitsSet'
  BY DEF Inv, LimitsSet
<1>9. ReadTimed'
  BY DEF Inv, ReadTimed
<1>10. WriteTimed'
  BY DEF Inv, WriteTimed
<1> QED BY <1>2, <1>3, <1>4, <1>5, <1>6, <1>7, <1>8, <1>9, <1>10 DEF Inv

\* DisconnectInt leaves no timer and nothing to send; Retry resets the totals.
LEMMA DisconnectIntInv == ASSUME Inv, phase = "connected", DisconnectInt PROVE Inv'
<1> USE DEF DisconnectInt, bev, timers, totals, ages
<1>1. TypeOK /\ opts \in Options
  BY DEF Inv, TypeOK
<1> USE <1>1, OptionFields, ConstantsAssumption
<1>2. TypeOK'
  <2>1. {m_bytes_read', m_bytes_written'} \subseteq 0 .. ULongMod - 1
    BY DEF TypeOK, Destroyed, Retry
  <2>2. m_reconnect_func' \in Nat \cup {Off} /\ phase' \in {"waiting", "gone"}
    BY DEF Destroyed, Retry
  <2>3. {m_bytes_read', m_bytes_written', total_read', total_written'} \subseteq 0 .. ULongMod - 1
    BY <2>1 DEF TypeOK
  <2>4. \A timer \in {read_timer', write_timer', m_reconnect_func', m_ping_timeout_func'} :
            timer \in Nat \cup {Off}
    BY <2>2
  <2>5. {silent', resumed', stalled'} \subseteq 0 .. Ages /\ 0 \in 0 .. MaxOutput
    BY DEF TypeOK
  <2>6. /\ limits' \in [read : Nat, write : Nat] /\ opts' \in Options
        /\ reading' = FALSE /\ writing' = FALSE /\ read_timer' = Off /\ write_timer' = Off
        /\ closing' = "no" /\ output' = 0
    BY DEF TypeOK
  <2> HIDE DEF DisconnectInt
  <2> QED BY <2>2, <2>3, <2>4, <2>5, <2>6 DEF TypeOK
<1>3. TimersBelong'
  BY DEF TimersBelong, Destroyed, Retry, Off
<1>4. TotalsRight'
  BY DEF TotalsRight, Destroyed, Retry
<1>5. ClosingOK'
  BY DEF ClosingOK
<1>6. TotalsReset'
  BY DEF TotalsReset, Destroyed, Retry
<1>7. JustConnected'
  BY DEF JustConnected
<1>8. LimitsSet'
  BY DEF LimitsSet, Destroyed, Retry
<1>9. ReadTimed'
  BY DEF ReadTimed
<1>10. WriteTimed'
  BY DEF WriteTimed, Destroyed, Retry
<1> QED BY <1>2, <1>3, <1>4, <1>5, <1>6, <1>7, <1>8, <1>9, <1>10 DEF Inv

\* Whatever leads to DisconnectInt finds a connection.
LEMMA EndsInv ==
    ASSUME Inv, RecvTimeout \/ SendTimeout \/ Disconnect \/ close_on_finished_writecb
    PROVE  Inv'
<1>1. phase = "connected" /\ DisconnectInt
  BY DEF Inv, TimersBelong, ClosingOK, RecvTimeout, SendTimeout, Disconnect,
     close_on_finished_writecb
<1> QED BY <1>1, DisconnectIntInv

\* CloseConnection(id, false) with something to send: reading stops, writing goes on.
LEMMA WaitForEmptyInv == ASSUME Inv, output # 0, DisconnectWhenFinishedInt PROVE Inv'
<1> USE DEF DisconnectWhenFinishedInt, bev, timers, totals, ages
<1>1. TypeOK /\ opts \in Options
  BY DEF Inv, TypeOK
<1> USE <1>1, OptionFields
<1>2. TypeOK'
  BY DEF TypeOK
<1>3. TimersBelong'
  BY DEF Inv, TimersBelong
<1>4. TotalsRight'
  BY DEF Inv, TotalsRight
<1>5. ClosingOK'
  BY DEF Inv, ClosingOK
<1>6. TotalsReset'
  BY DEF TotalsReset
<1>7. JustConnected'
  BY DEF Inv, JustConnected
<1>8. LimitsSet'
  BY DEF Inv, LimitsSet
<1>9. ReadTimed'
  BY DEF ReadTimed
<1>10. WriteTimed'
  BY DEF Inv, WriteTimed
<1> QED BY <1>2, <1>3, <1>4, <1>5, <1>6, <1>7, <1>8, <1>9, <1>10 DEF Inv

\* CloseConnection(id, false), with or without something to send.
LEMMA DisconnectWhenFinishedIntInv == ASSUME Inv, DisconnectWhenFinishedInt PROVE Inv'
BY WaitForEmptyInv, DisconnectIntInv DEF DisconnectWhenFinishedInt

\* The retry timer is over: the same object connects, its totals reset.
LEMMA ReconnectInv == ASSUME Inv, Reconnect PROVE Inv'
<1> USE DEF Reconnect, bev, timers, totals, ages
<1>1. TypeOK /\ opts \in Options
  BY DEF Inv, TypeOK
<1> USE <1>1, OptionFields
<1>2. TypeOK'
  BY DEF TypeOK
<1>3. TimersBelong'
  BY DEF Inv, TimersBelong, Off
<1>4. TotalsRight'
  BY DEF TotalsRight
<1>5. ClosingOK'
  BY DEF Inv, ClosingOK, TimersBelong, Off
<1>6. TotalsReset'
  BY DEF Inv, TotalsReset, TimersBelong, Off
<1>7. JustConnected'
  BY DEF JustConnected
<1>8. LimitsSet'
  BY DEF LimitsSet
<1>9. ReadTimed'
  BY DEF ReadTimed
<1>10. WriteTimed'
  BY DEF WriteTimed
<1> QED BY <1>2, <1>3, <1>4, <1>5, <1>6, <1>7, <1>8, <1>9, <1>10 DEF Inv

\* A failed attempt waits again, or is the end of the object.
LEMMA OnConnectFailureInv == ASSUME Inv, OnConnectFailure PROVE Inv'
<1> USE DEF OnConnectFailure, bev, timers, totals, ages
<1>1. TypeOK /\ opts \in Options
  BY DEF Inv, TypeOK
<1> USE <1>1, OptionFields, ConstantsAssumption
<1>2. TypeOK'
  BY DEF TypeOK, Destroyed, Retry
<1>3. TimersBelong'
  BY DEF Inv, TimersBelong, Destroyed, Retry, Off
<1>4. TotalsRight'
  BY DEF TotalsRight, Destroyed, Retry
<1>5. ClosingOK'
  BY DEF Inv, ClosingOK, Destroyed, Retry
<1>6. TotalsReset'
  BY DEF TotalsReset, Destroyed, Retry
<1>7. JustConnected'
  BY DEF Inv, JustConnected, TimersBelong
<1>8. LimitsSet'
  BY DEF LimitsSet, Destroyed, Retry
<1>9. ReadTimed'
  BY DEF Inv, ReadTimed, TimersBelong
<1>10. WriteTimed'
  BY DEF WriteTimed, Destroyed, Retry
<1> QED BY <1>2, <1>3, <1>4, <1>5, <1>6, <1>7, <1>8, <1>9, <1>10 DEF Inv

\* Time passes only while no timer has run out and nothing is due: the timers and the
\* histories move together.
LEMMA TickInv == ASSUME Inv, Tick PROVE Inv'
<1> USE DEF Tick, bev, timers, totals, ages
<1>1. TypeOK /\ opts \in Options
  BY DEF Inv, TypeOK
<1> USE <1>1, OptionFields, ConstantsAssumption
<1>2. TypeOK'
  <2>1. \A timer \in {read_timer, write_timer, m_reconnect_func, m_ping_timeout_func} :
            Less(timer) \in Nat \cup {Off} /\ (Less(timer) # Off => timer # Off)
    <3>1. ASSUME NEW timer \in {read_timer, write_timer, m_reconnect_func, m_ping_timeout_func}
          PROVE  Less(timer) \in Nat \cup {Off} /\ (Less(timer) # Off => timer # Off)
      <4>1. timer \in Nat \cup {Off} /\ timer # 0
        BY DEF TypeOK, Due
      <4> QED BY <4>1 DEF Less, Off
    <3> QED BY <3>1
  <2>2. {silent', resumed', stalled'} \subseteq 0 .. Ages
    BY DEF TypeOK, Older
  <2>3. \A timer \in {read_timer', write_timer', m_reconnect_func', m_ping_timeout_func'} :
            timer \in Nat \cup {Off}
    BY <2>1
  <2> QED BY <2>1, <2>2, <2>3 DEF TypeOK
<1>3. TimersBelong'
  BY DEF Inv, TimersBelong, Due, Less, Off
<1>4. TotalsRight'
  BY DEF Inv, TotalsRight
<1>5. ClosingOK'
  BY DEF Inv, ClosingOK
<1>6. TotalsReset'
  BY DEF Inv, TotalsReset
<1>7. JustConnected'
  BY DEF JustConnected, Due
<1>8. LimitsSet'
  BY DEF Inv, LimitsSet
<1>9. ReadTimed'
  BY DEF Inv, TypeOK, ReadTimed, Due, Less, Older, Off
<1>10. WriteTimed'
  <2>1. /\ output \in 0 .. MaxOutput /\ output' = output /\ stalled \in 0 .. Ages
        /\ stalled' = IF output > 0 THEN Older(stalled) ELSE 0
        /\ write_timer' = Less(write_timer) /\ write_timer # 0
        /\ write_timer \in Nat \cup {Off} /\ ~m_first_data_func
        /\ UNCHANGED <<opts, phase, writing, m_first_data_func>>
        /\ phase = "connected" => ~(writing /\ output = 0)
    BY DEF TypeOK, Due
  <2>2. phase = "connected" /\ output > 0 =>
            IF opts.nSendTimeout = 0 THEN write_timer = Off
            ELSE write_timer >= 0 /\ write_timer + stalled = opts.nSendTimeout
    BY <2>1 DEF Inv, WriteTimed
  <2> HIDE DEF Tick
  <2>3. phase = "connected" /\ output > 0 =>
            IF opts.nSendTimeout = 0 THEN write_timer' = Off
            ELSE write_timer' >= 0 /\ write_timer' + stalled' = opts.nSendTimeout
    BY <2>1, <2>2 DEF Less, Older, Off
  <2> QED BY <2>1, <2>3 DEF WriteTimed
<1> QED BY <1>2, <1>3, <1>4, <1>5, <1>6, <1>7, <1>8, <1>9, <1>10 DEF Inv

\* Nothing happens.
LEMMA StutterInv == ASSUME Inv, UNCHANGED vars PROVE Inv'
BY DEF vars, bev, timers, totals, ages, Inv, TypeOK, TimersBelong, TotalsRight, ClosingOK,
   TotalsReset, JustConnected, LimitsSet, ReadTimed, WriteTimed

\* Every step keeps the invariant: one lemma per action.
LEMMA NextInv == Inv /\ [Next]_vars => Inv'
<1>1. SUFFICES ASSUME Inv, [Next]_vars PROVE Inv'
  OBVIOUS
<1>2. CASE Event
  BY <1>1, <1>2, FirstDataIntInv, NothingToWriteInv, EndsInv, PingTimeoutIntInv,
     ReconnectInv DEF Event
<1>3. CASE Tick \/ Connected \/ OnConnectFailure \/ Heard
  BY <1>1, <1>3, TickInv, ConnectedInv, OnConnectFailureInv, HeardInv
<1>4. ASSUME NEW n \in 1 .. MaxOutput, Written(n) PROVE Inv'
  BY <1>1, <1>4, WrittenInv
<1>5. CASE Send \/ PauseRecv \/ UnpauseRecv
  BY <1>1, <1>5, SendInv, PauseRecvInv, UnpauseRecvInv
<1>6. ASSUME NEW seconds \in Pings, ResetPingTimeout(seconds) PROVE Inv'
  BY <1>1, <1>6, ResetPingTimeoutInv
<1>7. CASE Disconnect \/ DisconnectWhenFinishedInt
  BY <1>1, <1>7, EndsInv, DisconnectWhenFinishedIntInv
<1>8. CASE UNCHANGED vars
  BY <1>1, <1>8, StutterInv
<1> QED BY <1>1, <1>2, <1>3, <1>4, <1>5, <1>6, <1>7, <1>8 DEF Next

-----------------------------------------------------------------------------
(* The theorems. *)

\* The invariant of every reachable state.
THEOREM Invariance == Spec => []Inv
BY InitInv, NextInv, PTL DEF Spec

\* DisconnectInt, Retry: a connection of a reused object has no timer of the one before
\* it, and no byte in its totals.
THEOREM StateConsistent == Spec => []Consistent
<1>1. Inv => Consistent
  BY DEF Inv, Consistent
<1> QED BY <1>1, Invariance, PTL

\* FirstDataInt, bufferevent_set_timeouts: no peer is kept longer than nRecvTimeout and
\* nSendTimeout allow, and none is dropped before.
THEOREM TimeoutsPunctual == Spec => []Punctual
<1>1. ASSUME Inv PROVE Punctual
  <2>1. TypeOK /\ opts \in Options
    BY <1>1 DEF Inv, TypeOK
  <2>2. SilentPeerBound
    BY <1>1, OptionFields DEF Inv, TypeOK, JustConnected, ReadTimed, SilentPeerBound, Off
  <2>3. StalledPeerBound
    <3>1. output = 0 \/ output > 0
      BY <1>1 DEF Inv, TypeOK
    <3>2. stalled \in Nat /\ write_timer \in Int
      <4>1. stalled \in 0 .. Ages /\ write_timer \in Nat \cup {Off}
        BY <1>1 DEF Inv, TypeOK
      <4> QED BY <4>1 DEF Off
    <3> QED BY <1>1, <2>1, <3>1, <3>2, OptionFields
            DEF Inv, JustConnected, WriteTimed, StalledPeerBound
  <2>4. reading /\ read_timer = 0 => opts.nRecvTimeout > 0 /\ silent >= opts.nRecvTimeout
    BY <1>1, ArmedTimer DEF Inv, TypeOK, TimersBelong, JustConnected, ReadTimed
  <2>5. writing /\ write_timer = 0 =>
            output > 0 /\ opts.nSendTimeout > 0 /\ stalled >= opts.nSendTimeout
    BY <1>1, ArmedTimer DEF Inv, TypeOK, TimersBelong, JustConnected, WriteTimed
  <2> QED BY <2>2, <2>3, <2>4, <2>5 DEF Punctual, NotDroppedEarly
<1> QED BY <1>1, Invariance, PTL
=============================================================================
