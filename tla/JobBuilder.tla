----------------------------- MODULE JobBuilder -----------------------------
(***************************************************************************)
(* The job matrix of run_tests (src/stress_tests/conformance.py): for each *)
(* codec, for each of its sequences, for each test of the test file that   *)
(* the --sets filter and the codec select, one job, numbered by a counter  *)
(* in that order.  A job is a record                                       *)
(*   [codec, sequence, test]                                               *)
(* and its job number is its position in the sequence minus one.           *)
(* A test is a record [name, sets, generate_base, userdata]; name stands   *)
(* for name and version, userdata for "the encoder emits user data with    *)
(* this test's parameters".                                                *)
(***************************************************************************)
EXTENDS Naturals, Sequences, SequencesExt

\* Variant: the codec check of lines 466-467 dropped.
SelectedAnyCodec(test, codec, testSet) ==
    testSet # {} => test.sets \cap testSet # {}

\* Lines 460-467: with a non-empty filter a test must share a set with it,
\* and the codec itself must be one of the test's sets.
Selected(test, codec, testSet) ==
    /\ testSet # {} => test.sets \cap testSet # {}
    /\ codec \in test.sets

\* Lines 455-499: the jobs of one (codec, sequence) pair, in test order.
JobsOfSequence(codec, sequence, tests, testSet) ==
    LET chosen == SelectSeq(tests, LAMBDA t : Selected(t, codec, testSet))
    IN  [k \in 1..Len(chosen) |->
            [codec |-> codec, sequence |-> sequence, test |-> chosen[k]]]

\* Lines 445-499: codecs outer, sequences middle, tests inner; the counter
\* makes the job number the position in this sequence.
BuildJobs(codecs, sequencesOf, tests, testSet) ==
    FlattenSeq([i \in 1..Len(codecs) |->
        FlattenSeq([k \in 1..Len(sequencesOf[codecs[i]]) |->
            JobsOfSequence(codecs[i], sequencesOf[codecs[i]][k], tests, testSet)])])

=============================================================================
