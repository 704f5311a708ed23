------------------------------- MODULE MCBatch -------------------------------
(***************************************************************************)
(* Model-checking instances of BatchRunner.  The job list is built by     *)
(* JobBuilder from a small codecs/sequences/tests matrix.                  *)
(***************************************************************************)
EXTENDS BatchRunner, JobBuilder

\* Tests: tU emits user data, tP does not, tG generates its own base.
tU == [name |-> "tU", sets |-> {"avc"}, generate_base |-> FALSE, userdata |-> TRUE]
tP == [name |-> "tP", sets |-> {"avc"}, generate_base |-> FALSE, userdata |-> FALSE]
tG == [name |-> "tG", sets |-> {"avc"}, generate_base |-> TRUE, userdata |-> FALSE]

\* One sequence, two tests: every job has a directory of its own.
JobsOwnDirs ==
    BuildJobs(<<"avc">>, [c \in {"avc"} |-> <<"s1">>], <<tU, tP>>, {})

\* Two sequences of one test that emits user data: both jobs share the
\* test's directory.
JobsSharedDir ==
    BuildJobs(<<"avc">>, [c \in {"avc"} |-> <<"s1", "s2">>], <<tU>>, {})

\* Two sequences of one test without user data.
JobsSharedDirPlain ==
    BuildJobs(<<"avc">>, [c \in {"avc"} |-> <<"s1", "s2">>], <<tP>>, {})

\* One test that generates its own base.
JobsGenerateBase ==
    BuildJobs(<<"avc">>, [c \in {"avc"} |-> <<"s1">>], <<tG>>, {})

\* A test run for two codecs whose sequence lists both name s1.
tPBoth == [name |-> "tP", sets |-> {"avc", "hevc"}, generate_base |-> FALSE,
           userdata |-> FALSE]
JobsTwoCodecs ==
    BuildJobs(<<"avc", "hevc">>, [c \in {"avc", "hevc"} |-> <<"s1">>], <<tPBoth>>, {})

=============================================================================
