--------------------------- MODULE TorRunnerProofs ----------------------------
(***************************************************************************)
(* What TorRunner guarantees for any number of bootstrap lines and any     *)
(* size of the pipe.  The word that starts the node passes through four    *)
(* hands - the pipe, the goroutine of Start, the message of listenForTor,  *)
(* Update - and the inductive invariant says of each of them that it only  *)
(* holds the word when Tor has printed its last bootstrap line.            *)
(***************************************************************************)
EXTENDS TorRunner, SequenceTheorems, TLAPS

Lines == {"Bootstrapped", "Bootstrapped_100", "other"}
Words == {"Bootstrapped", "Bootstrapped_100", "SUCCESS_100"}

\* What the goroutine can have left to send for one line.
Batches == {<<>>, <<"Bootstrapped">>, <<"Bootstrapped_100", "SUCCESS_100">>, <<"SUCCESS_100">>}

TypeOK ==
    /\ tor \in [alive: BOOLEAN, printed: Nat]
    /\ pipe \in Seq(Lines)
    /\ sending \in Batches
    /\ inbox \in {"none", "TorProgressMsg", "TorDoneMsg", "TorErrorMsg"}

Bootstrapped == tor.printed > ProgressLines

\* The goroutine still has to say that Tor is ready.
Promised == sending \in {<<"Bootstrapped_100", "SUCCESS_100">>, <<"SUCCESS_100">>}

WordsAreTrue ==
    /\ \A i \in 1..Len(pipe) : pipe[i] = "Bootstrapped_100" => Bootstrapped
    /\ Promised => Bootstrapped
    /\ inbox = "TorDoneMsg" => Bootstrapped
    /\ client = "tui" /\ stage = "running" => Bootstrapped

IInv == TypeOK /\ WordsAreTrue
-----------------------------------------------------------------------------
\* A line printed to the pipe does not change the lines before it.
LEMMA PipeGrows ==
    ASSUME TypeOK, NEW line \in Lines, pipe' = Append(pipe, line)
    PROVE  /\ pipe' \in Seq(Lines)
           /\ \A i \in 1..Len(pipe') : pipe'[i] = line \/ (i \in 1..Len(pipe) /\ pipe'[i] = pipe[i])
  BY AppendProperties DEF TypeOK

\* What a line read from the pipe makes the goroutine send.
LEMMA ForwardedBatch ==
    ASSUME NEW line \in Lines
    PROVE  /\ Forwarded(line) \in Batches
           /\ line # "Bootstrapped_100" => Forwarded(line) \in {<<>>, <<"Bootstrapped">>}
  BY DEF Forwarded, Lines, Batches

\* The rest of a batch, and the word that promises success.
LEMMA BatchShrinks ==
    ASSUME NEW batch \in Batches, batch # <<>>
    PROVE  /\ Tail(batch) \in Batches
           /\ Head(batch) = "SUCCESS_100" => batch = <<"SUCCESS_100">>
           /\ Tail(batch) # <<>> => batch = <<"Bootstrapped_100", "SUCCESS_100">>
<1>1. CASE batch = <<"Bootstrapped">>
  BY <1>1 DEF Batches
<1>2. CASE batch = <<"Bootstrapped_100", "SUCCESS_100">>
  <2>1. /\ Tail(batch) \in Seq(Words) /\ Len(Tail(batch)) = 1
        /\ Tail(batch)[1] = "SUCCESS_100"
    BY <1>2 DEF Words
  <2>2. <<"SUCCESS_100">> \in Seq(Words) /\ Len(<<"SUCCESS_100">>) = 1
    BY DEF Words
  <2>3. \A i \in 1..1 : Tail(batch)[i] = <<"SUCCESS_100">>[i]
    <3>1. <<"SUCCESS_100">>[1] = "SUCCESS_100" /\ \A i \in 1..1 : i = 1
      OBVIOUS
    <3>2. QED
      BY <2>1, <3>1
  <2>4. Tail(batch) = <<"SUCCESS_100">>
    BY <2>1, <2>2, <2>3, SeqEqual
  <2>5. Head(batch) = "Bootstrapped_100"
    BY <1>2
  <2>6. QED
    BY <1>2, <2>4, <2>5 DEF Batches
<1>3. CASE batch = <<"SUCCESS_100">>
  BY <1>3 DEF Batches
<1>4. QED
  BY <1>1, <1>2, <1>3 DEF Batches

LEMMA InitEstablishes == Init => IInv
<1> SUFFICES ASSUME Init PROVE IInv
  OBVIOUS
<1>1. TypeOK
  BY DEF Init, TypeOK, Batches
<1>2. ~Promised
  BY DEF Init, Promised
<1>3. QED
  BY <1>1, <1>2 DEF Init, IInv, WordsAreTrue

LEMMA PrintKeeps == ASSUME IInv, PrintLine PROVE IInv'
<1>1. tor \in [alive: BOOLEAN, printed: Nat]
  BY DEF IInv, TypeOK
<1>2. PICK line \in Lines :
         /\ pipe' = Append(pipe, line)
         /\ tor' = tor \/ tor' = [tor EXCEPT !.printed = @ + 1]
         /\ line = "Bootstrapped_100" => tor' = [tor EXCEPT !.printed = @ + 1] /\ tor.printed = ProgressLines
  BY DEF PrintLine, Lines
<1>3. /\ tor' \in [alive: BOOLEAN, printed: Nat]
      /\ Bootstrapped => Bootstrapped'
      /\ line = "Bootstrapped_100" => Bootstrapped'
  <2>1. CASE tor' = tor
    BY <1>1, <1>2, <2>1, SizesArePositive DEF Bootstrapped
  <2>2. CASE tor' = [tor EXCEPT !.printed = @ + 1]
    <3>1. tor' \in [alive: BOOLEAN, printed: Nat] /\ tor'.printed = tor.printed + 1
      BY <1>1, <2>2
    <3>2. QED
      BY <1>1, <1>2, <3>1, SizesArePositive DEF Bootstrapped
  <2>3. QED
    BY <1>2, <2>1, <2>2
<1>4. /\ pipe' \in Seq(Lines)
      /\ \A i \in 1..Len(pipe') : pipe'[i] = line \/ (i \in 1..Len(pipe) /\ pipe'[i] = pipe[i])
  BY <1>2, PipeGrows DEF IInv
<1>5. /\ sending' = sending /\ inbox' = inbox /\ stage' = stage /\ client' = client
  BY DEF PrintLine, goroutine, ui
<1>6. TypeOK'
  BY <1>3, <1>4, <1>5 DEF IInv, TypeOK
<1>7. WordsAreTrue'
  BY <1>3, <1>4, <1>5 DEF IInv, WordsAreTrue, Promised
<1>8. QED
  BY <1>6, <1>7 DEF IInv

LEMMA DieKeeps == ASSUME IInv, Die PROVE IInv'
<1>1. tor' \in [alive: BOOLEAN, printed: Nat] /\ tor'.printed = tor.printed
  BY DEF Die, IInv, TypeOK
<1>2. QED
  BY <1>1 DEF Die, IInv, TypeOK, WordsAreTrue, Promised, Bootstrapped, goroutine, ui

LEMMA ReadKeeps == ASSUME IInv, ReadLine PROVE IInv'
<1>1. pipe \in Seq(Lines) /\ pipe # <<>>
  BY DEF ReadLine, IInv, TypeOK
<1>2. /\ Head(pipe) \in Lines /\ Head(pipe) = pipe[1] /\ 1 \in 1..Len(pipe)
      /\ Tail(pipe) \in Seq(Lines)
      /\ \A i \in 1..Len(Tail(pipe)) : i + 1 \in 1..Len(pipe) /\ Tail(pipe)[i] = pipe[i + 1]
  BY <1>1
<1>3. Forwarded(Head(pipe)) \in Batches
  BY <1>2, ForwardedBatch
<1>4. TypeOK'
  BY <1>2, <1>3 DEF ReadLine, IInv, TypeOK, ui
<1>5. Promised' => Bootstrapped
  <2>1. SUFFICES ASSUME Promised' PROVE Head(pipe) = "Bootstrapped_100"
    BY <1>2 DEF IInv, WordsAreTrue
  <2>2. Head(pipe) # "Bootstrapped_100" => sending' \in {<<>>, <<"Bootstrapped">>}
    BY <1>2, ForwardedBatch DEF ReadLine
  <2>3. <<"Bootstrapped">> \notin {<<"Bootstrapped_100", "SUCCESS_100">>, <<"SUCCESS_100">>}
    OBVIOUS
  <2>4. QED
    BY <2>1, <2>2, <2>3 DEF Promised
<1>6. WordsAreTrue'
  BY <1>2, <1>5 DEF ReadLine, IInv, WordsAreTrue, Bootstrapped, ui
<1>7. QED
  BY <1>4, <1>6 DEF IInv

\* A word received, and what the receiver makes of it.
LEMMA SentKeeps == ASSUME IInv, Sent PROVE /\ sending' \in Batches
                                           /\ Promised' => Bootstrapped
                                           /\ Head(sending) = "SUCCESS_100" => Bootstrapped
<1>1. sending \in Batches /\ sending # <<>> /\ sending' = Tail(sending)
  BY DEF Sent, IInv, TypeOK
<1>2. Promised' => sending = <<"Bootstrapped_100", "SUCCESS_100">>
  <2>1. Promised' => sending' # <<>>
    BY DEF Promised
  <2>2. QED
    BY <1>1, <2>1, BatchShrinks
<1>3. QED
  BY <1>1, <1>2, BatchShrinks DEF IInv, WordsAreTrue, Promised

LEMMA ReceiveKeeps == ASSUME IInv, Receive \/ Hear PROVE IInv'
<1>1. Sent
  BY DEF Receive, Hear
<1>2. TypeOK'
  BY <1>1, SentKeeps DEF Receive, Hear, Sent, IInv, TypeOK, daemon, ui
<1>3. WordsAreTrue'
  BY <1>1, SentKeeps DEF Receive, Hear, Sent, IInv, WordsAreTrue, Bootstrapped, daemon, ui
<1>4. QED
  BY <1>2, <1>3 DEF IInv

LEMMA HandleKeeps == ASSUME IInv, Handle PROVE IInv'
  BY DEF Handle, IInv, TypeOK, WordsAreTrue, Promised, Bootstrapped, daemon, goroutine

\* Every other step hands on no word.
LEMMA OtherStepKeeps ==
    ASSUME IInv,
           \/ EndOfStdout \/ ChannelClosed \/ Interrupt \/ HearClosed \/ HearNothing
           \/ CallStop \/ StopReturns \/ UNCHANGED vars
    PROVE  IInv'
<1>1. /\ tor' = tor /\ pipe' = pipe /\ sending' = sending /\ client' = client
      /\ inbox' \in {inbox, "TorErrorMsg"}
      /\ client = "tui" => stage' = stage \/ stage' # "running"
  BY DEF EndOfStdout, ChannelClosed, Interrupt, HearClosed, HearNothing, CallStop, StopReturns,
         ListenerClosed, vars, daemon, goroutine, ui
<1>2. QED
  BY <1>1 DEF IInv, TypeOK, WordsAreTrue, Promised, Bootstrapped

LEMMA NextKeeps == IInv /\ [Next]_vars => IInv'
  BY PrintKeeps, DieKeeps, ReadKeeps, ReceiveKeeps, HandleKeeps, OtherStepKeeps DEF Next

LEMMA InvariantHolds == Spec => []IInv
  BY InitEstablishes, NextKeeps, PTL DEF Spec

(* The TUI starts its node only after Tor has printed 100%, however long   *)
(* the bootstrap, whatever dies, times out or is quit first (tor.Start,    *)
(* listenForTor, AppModel.Update).                                         *)
THEOREM NodeStartsOnTor == Spec => []RunningMeansBootstrapped
<1>1. IInv => RunningMeansBootstrapped
  BY DEF IInv, WordsAreTrue, RunningMeansBootstrapped, Bootstrapped
<1>2. QED
  BY <1>1, InvariantHolds, PTL
=============================================================================
