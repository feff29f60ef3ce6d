------------------------- MODULE AsyncLoggerProofs --------------------------
(***************************************************************************)
(* The logger's accounting, for every capacity, number of entries and      *)
(* number of Close calls.                                                  *)
(***************************************************************************)
EXTENDS AsyncLogger, SequenceTheorems, TLAPS

\* A goroutine that returned left nothing behind, and Close returns nil only then.
Ended ==
    /\ done => entries = <<>> /\ writing = 0 /\ (closing \/ failed)
    /\ \A c \in Closers : close[c] = "nil" => done
    /\ sinkFailed => writing # 0 \/ done
    /\ \A c \in Closers : close[c] # "idle" => closing

\* Written entries come before the one in hand, which comes before the queued ones.
Ordered ==
    /\ \A i, j \in 1..Len(written) : i < j => written[i] < written[j]
    /\ \A i \in 1..Len(written) : writing # 0 => written[i] < writing
    /\ \A i \in 1..Len(written), j \in 1..Len(entries) : written[i] < entries[j]
    /\ \A j \in 1..Len(entries) : writing < entries[j]
    /\ \A i, j \in 1..Len(entries) : i < j => entries[i] < entries[j]
    /\ \A i \in 1..Len(written) : written[i] <= issued
    /\ \A j \in 1..Len(entries) : entries[j] <= issued
    /\ writing <= issued

Counted == issued = Len(written) + Len(entries) + InHand + dropped

LoggerInv == LoggerTypeOK /\ Counted /\ Ended /\ Ordered

\* The invariant holds of a new logger.
LEMMA LoggerInitially == LoggerInit => LoggerInv
<1> SUFFICES ASSUME LoggerInit PROVE LoggerInv
  OBVIOUS
<1> USE LoggerAssumption DEF LoggerInit
<1>1. Len(entries) = 0 /\ Len(written) = 0
  OBVIOUS
<1>2. LoggerTypeOK
  <2>1. entries \in Seq(1..MaxEntries) /\ written \in Seq(1..MaxEntries)
    OBVIOUS
  <2>2. close \in [Closers -> {"idle", "waiting", "nil", "error"}]
    OBVIOUS
  <2>3. sinkFailed \in BOOLEAN /\ closing \in BOOLEAN /\ failed \in BOOLEAN /\ done \in BOOLEAN
    BY Zenon
  <2>4. issued \in 0..MaxEntries /\ writing \in 0..MaxEntries /\ dropped \in Nat
    OBVIOUS
  <2> QED
    BY <2>1, <2>2, <2>3, <2>4, Zenon DEF LoggerTypeOK
<1>3. Counted /\ Ended
  BY <1>1 DEF Counted, InHand, Ended
<1>4. Ordered
  BY <1>1 DEF Ordered
<1> QED
  BY <1>2, <1>3, <1>4 DEF LoggerInv

\* Every step of callers, goroutine and Close keeps it.
LEMMA LoggerPreserved == LoggerInv /\ [LoggerNext]_lgVars => LoggerInv'
<1> SUFFICES ASSUME LoggerInv, [LoggerNext]_lgVars PROVE LoggerInv'
  OBVIOUS
<1> USE LoggerAssumption
    DEF LoggerInv, LoggerTypeOK, Counted, Ended, Ordered, InHand
<1>1. CASE LogEvent
  <2>1. CASE Accepts
    <3>1. /\ issued' = issued + 1 /\ entries' = Append(entries, issued + 1)
          /\ issued + 1 \in 1..MaxEntries /\ ~closing /\ ~failed
          /\ UNCHANGED <<writing, sinkFailed, written, dropped, closing, failed, done, close>>
      BY <1>1, <2>1 DEF LogEvent, Accepts
    <3>2. LoggerTypeOK' /\ Ended'
      BY <3>1
    <3>4. Len(entries') = Len(entries) + 1
      BY <3>1
    <3>5. Counted'
      <4>1. Len(entries) \in Nat /\ Len(written) \in Nat /\ InHand \in Nat /\ issued \in Nat
        OBVIOUS
      <4>2. InHand' = InHand /\ Len(written') = Len(written) /\ dropped' = dropped
        BY <3>1
      <4> HIDE DEF InHand
      <4> QED
        BY <3>1, <3>4, <4>1, <4>2
    <3>3. Ordered'
      <4>1. /\ \A i \in 1..Len(entries) : entries'[i] = entries[i] /\ entries'[i] <= issued
            /\ entries'[Len(entries) + 1] = issued + 1
        BY <3>1
      <4>2. /\ \A i \in 1..Len(entries') : i \in 1..Len(entries) \/ i = Len(entries) + 1
            /\ written' = written /\ writing' = writing /\ issued' = issued + 1
            /\ issued \in Nat /\ Len(entries) \in Nat /\ writing \in Nat
            /\ \A i \in 1..Len(entries) : entries[i] \in Nat
            /\ \A i \in 1..Len(written) : written[i] \in Nat
        <5>1. /\ issued \in Nat /\ Len(entries) \in Nat /\ writing \in Nat
              /\ \A i \in 1..Len(entries) : entries[i] \in Nat
              /\ \A i \in 1..Len(written) : written[i] \in Nat
          OBVIOUS
        <5> HIDE DEF LoggerInv, LoggerTypeOK, Counted, Ended, Ordered
        <5>2. \A i \in 1..Len(entries') : i \in 1..Len(entries) \/ i = Len(entries) + 1
          BY <3>4, <5>1
        <5> QED
          BY <3>1, <5>1, <5>2
      <4>3. ASSUME NEW i \in 1..Len(entries'), NEW j \in 1..Len(entries'), i < j
            PROVE  entries'[i] < entries'[j]
        <5>1. i \in 1..Len(entries)
          BY <4>2, <4>3, <3>4
        <5>2. CASE j \in 1..Len(entries)
          BY <4>1, <4>3, <5>1, <5>2
        <5>3. CASE j = Len(entries) + 1
          <6>1. entries'[j] = issued + 1 /\ entries'[i] <= issued /\ entries'[i] = entries[i]
            BY <4>1, <5>1, <5>3
          <6>2. entries[i] \in Nat /\ issued \in Nat
            BY <4>2, <5>1
          <6> HIDE DEF LoggerInv, LoggerTypeOK, Counted, Ended, Ordered
          <6> QED
            BY <6>1, <6>2
        <5> QED
          BY <4>2, <5>2, <5>3
      <4>4. ASSUME NEW j \in 1..Len(entries')
            PROVE  /\ writing' < entries'[j] /\ entries'[j] <= issued'
                   /\ \A i \in 1..Len(written') : written'[i] < entries'[j]
        <5>1. CASE j \in 1..Len(entries)
          <6>1. /\ writing < entries[j] /\ entries[j] <= issued
                /\ \A i \in 1..Len(written) : written[i] < entries[j]
            BY <5>1
          <6>2. entries'[j] = entries[j] /\ entries[j] \in Nat
            BY <4>1, <4>2, <5>1
          <6> HIDE DEF LoggerInv, LoggerTypeOK, Counted, Ended, Ordered
          <6> QED
            BY <4>2, <6>1, <6>2
        <5>2. CASE j = Len(entries) + 1
          <6>1. writing <= issued /\ \A i \in 1..Len(written) : written[i] <= issued
            OBVIOUS
          <6>2. entries'[j] = issued + 1
            BY <4>1, <5>2
          <6> HIDE DEF LoggerInv, LoggerTypeOK, Counted, Ended, Ordered
          <6> QED
            BY <4>2, <6>1, <6>2
        <5> QED
          BY <4>2, <5>1, <5>2
      <4> QED
        BY <4>2, <4>3, <4>4
    <3> QED
      BY <3>2, <3>3, <3>5
  <2>2. CASE ~Accepts
    <3>1. /\ issued' = issued + 1 /\ issued' \in 0..MaxEntries /\ dropped' = dropped + 1
          /\ UNCHANGED <<entries, writing, sinkFailed, written, closing, failed, done, close>>
      BY <1>1, <2>2 DEF LogEvent
    <3>2. LoggerTypeOK' /\ Ended'
      BY <3>1
    <3>3. Counted'
      <4>1. InHand' = InHand /\ InHand \in Nat
        BY <3>1
      <4>2. Len(entries) \in Nat /\ Len(written) \in Nat /\ issued \in Nat /\ dropped \in Nat
        OBVIOUS
      <4>3. Counted
        OBVIOUS
      <4> HIDE DEF LoggerInv, LoggerTypeOK, Ended, Ordered, InHand
      <4> QED
        BY <3>1, <4>1, <4>2, <4>3
    <3>4. Ordered'
      <4>1. /\ \A i \in 1..Len(written) : written[i] \in Nat
            /\ \A j \in 1..Len(entries) : entries[j] \in Nat
            /\ writing \in Nat /\ issued \in Nat
        OBVIOUS
      <4>2. Ordered
        OBVIOUS
      <4> HIDE DEF LoggerInv, LoggerTypeOK, Counted, Ended
      <4> QED
        BY <3>1, <4>1, <4>2
    <3> QED
      BY <3>2, <3>3, <3>4
  <2> QED
    BY <2>1, <2>2
<1>2. CASE TakeEntry
  <2>1. /\ Head(entries) = entries[1] /\ Head(entries) \in 1..MaxEntries
        /\ Tail(entries) \in Seq(1..MaxEntries) /\ Len(Tail(entries)) = Len(entries) - 1
        /\ \A i \in 1..Len(Tail(entries)) : Tail(entries)[i] = entries[i + 1]
        /\ Len(entries) \in Nat \ {0}
    BY <1>2 DEF TakeEntry
  <2>2. LoggerTypeOK' /\ Ended'
    BY <1>2, <2>1 DEF TakeEntry
  <2>4. Counted'
    <3>1. InHand = 0 /\ InHand' = 1 /\ Len(entries') = Len(entries) - 1
      BY <1>2, <2>1 DEF TakeEntry
    <3>2. /\ issued' = issued /\ Len(written') = Len(written) /\ dropped' = dropped
          /\ Len(written) \in Nat /\ dropped \in Nat
      BY <1>2 DEF TakeEntry
    <3> HIDE DEF InHand
    <3> QED
      BY <2>1, <3>1, <3>2
  <2>3. Ordered'
    <3>1. /\ entries' = Tail(entries) /\ writing' = entries[1] /\ writing = 0
          /\ written' = written /\ issued' = issued
      BY <1>2, <2>1 DEF TakeEntry
    <3>2. \A i \in 1..Len(entries') : i + 1 \in 1..Len(entries) /\ entries'[i] = entries[i + 1]
      BY <2>1, <3>1
    <3> QED
      BY <2>1, <3>1, <3>2
  <2> QED
    BY <2>2, <2>3, <2>4
<1>3. CASE WriteEntry
  <2>1. LoggerTypeOK' /\ Counted' /\ Ended'
    BY <1>3 DEF WriteEntry
  <2>2. Ordered'
    <3>1. /\ written' = Append(written, writing) /\ writing # 0 /\ writing' = 0
          /\ entries' = entries /\ issued' = issued
          /\ written \in Seq(1..MaxEntries) /\ writing \in 1..MaxEntries
      BY <1>3 DEF WriteEntry
    <3>2. /\ \A j \in 1..Len(entries) : entries[j] \in Nat /\ 0 < entries[j]
          /\ \A i \in 1..Len(written) : written[i] \in Nat
          /\ Len(written) \in Nat /\ writing \in Nat /\ issued \in Nat /\ Ordered
      OBVIOUS
    <3> HIDE DEF LoggerInv, LoggerTypeOK, Counted, Ended
    <3>3. /\ Len(written') = Len(written) + 1
          /\ \A i \in 1..Len(written) : written'[i] = written[i]
          /\ written'[Len(written) + 1] = writing
      BY <3>1
    <3>4. \A i \in 1..Len(written') : i \in 1..Len(written) \/ i = Len(written) + 1
      BY <3>2, <3>3
    <3>5. \A i, j \in 1..Len(written') : i < j => written'[i] < written'[j]
      <4> SUFFICES ASSUME NEW i \in 1..Len(written'), NEW j \in 1..Len(written'), i < j
                   PROVE  written'[i] < written'[j]
        OBVIOUS
      <4>1. i \in 1..Len(written)
        BY <3>2, <3>3
      <4> QED
        BY <3>1, <3>2, <3>3, <3>4, <4>1
    <3>6. \A i \in 1..Len(written') : written'[i] <= issued
      BY <3>2, <3>3, <3>4
    <3>7. \A i \in 1..Len(written'), j \in 1..Len(entries) : written'[i] < entries[j]
      BY <3>2, <3>3, <3>4
    <3> QED
      BY <3>1, <3>2, <3>5, <3>6, <3>7
  <2> QED
    BY <2>1, <2>2
<1>4. CASE SinkFails
  BY <1>4 DEF SinkFails
<1>5. CASE DropQueued
  BY <1>5 DEF DropQueued, Lost
<1>6. CASE RunAsyncEnds
  BY <1>6 DEF RunAsyncEnds, ChannelDrained
<1>7. ASSUME NEW c \in Closers, BeginClose(c) PROVE LoggerInv'
  BY <1>7 DEF BeginClose
<1>8. ASSUME NEW c \in Closers, CloseReturns(c) PROVE LoggerInv'
  BY <1>8 DEF CloseReturns
<1>9. CASE UNCHANGED lgVars
  BY <1>9 DEF lgVars
<1> QED
  BY <1>1, <1>2, <1>3, <1>4, <1>5, <1>6, <1>7, <1>8, <1>9 DEF LoggerNext, RunAsync

\* However a full channel, a failing sink and Close meet, every call of an event
\* method is written, queued, in hand or counted by Dropped, nothing is on the way
\* any more when Close returned nil, and the sink keeps the order of the calls.
THEOREM NothingUncounted == LoggerSpec => []EntriesAccounted
<1>1. LoggerInv => EntriesAccounted
  BY DEF LoggerInv, LoggerTypeOK, EntriesAccounted, Counted, Ended, Ordered, InHand
<1> QED
  BY <1>1, LoggerInitially, LoggerPreserved, PTL DEF LoggerSpec
=============================================================================
