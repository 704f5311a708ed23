----------------------------- MODULE JobExecutor ----------------------------
(***************************************************************************)
(* test_encode_decode (src/stress_tests/conformance.py, lines 171-407): one *)
(* conformance job, as the steps of the process that runs it.  All jobs of *)
(* a batch share the batch's working directory, and a job's own directory *)
(* is named after its test only (line 209), so the files below are what   *)
(* concurrent jobs can see of each other:                                 *)
(*   <<kind, output>>    files named after the job's output               *)
(*                       f"{sequence}_{name}_v-nova_v{version}": the       *)
(*                       bitstream, the encoder recon, the decoded yuv,    *)
(*                       the validator's _sdk.bit and the harness output   *)
(*                       in tmp_{sequence}/;                               *)
(*   <<kind, category>>  userdata_enc.bin / userdata_dec.bin, whose names  *)
(*                       are fixed, in the test's directory.               *)
(* File contents are abstract: a bitstream is the job that encoded it, a   *)
(* picture or user data is what a stream decodes to, junk is the output   *)
(* of a tool that exited 0 but computed the wrong thing.  The external    *)
(* tools are nondeterministic: each run picks an outcome.                 *)
(***************************************************************************)
EXTENDS Naturals, Sequences, FiniteSets, TLC

CONSTANTS
    JobList,          \* the batch's jobs in job-number order (JobBuilder)
    DecodeOnly,       \* the --decode_only flag
    Rerun,            \* the batch runs where an earlier run of it ran
    Absent,           \* no file at a path, no key in a dict
    NoEncodedOutput,  \* "No encoded output (xxhash)"
    NoDecodedOutput,  \* "No decoded output"
    NoSDKOutput       \* "No SDK output"

ASSUME DecodeOnly \in BOOLEAN /\ Rerun \in BOOLEAN

Jobs == DOMAIN JobList
Category(j) == JobList[j].test.name
Output(j) == <<JobList[j].sequence, JobList[j].test.name>>
Categories == {Category(j) : j \in Jobs}
Outputs == {Output(j) : j \in Jobs}

OutputFiles == {"bit", "recon", "decoded", "sdkbit", "sdkout"}
CategoryFiles == {"userdata_enc", "userdata_dec"}
Paths == (OutputFiles \X Outputs) \cup (CategoryFiles \X Categories)
Path(kind, j) == IF kind \in OutputFiles THEN <<kind, Output(j)>>
                                         ELSE <<kind, Category(j)>>

Stream(j) == <<"stream", j>>
Pic(s) == <<"picture", s>>
UserData(s) == <<"userdata", s>>
Junk(tool, j) == <<"junk", tool, j>>
HasUserData(s) == JobList[s[2]].test.userdata
Streams == {Stream(j) : j \in Jobs}
Contents == Streams \cup {Pic(s) : s \in Streams} \cup {UserData(s) : s \in Streams}
            \cup {Junk(t, j) : t \in {"enc", "dec", "ud", "har"}, j \in Jobs}

\* hash()/hash_md5() of a file: equal digests iff equal contents.
Digest(c) == <<"digest", c>>
Checksums == {Digest(c) : c \in Contents}
             \cup {NoEncodedOutput, NoDecodedOutput, NoSDKOutput}

Steps == {"queued", "exists", "mkdir", "setup", "encode", "hashenc", "decode",
          "validate", "harness", "verify", "cleanup", "userdata", "udmove",
          "done", "raised"}

VARIABLES
    dirs,      \* test directories that exist
    tmpdirs,   \* outputs whose tmp_{sequence} harness directory exists
    fs,        \* path -> content or Absent
    pc,        \* job -> the step it executes next
    outcome,   \* job -> what each external tool did (history)
    ok,        \* job -> the booleans test_encode_decode computes
    sum,       \* job -> encoded / decoded / SDK checksums
    result,    \* job -> the boolean it returns
    updated    \* job -> its copy of the test dict, as mutated at 365-368

execVars == <<dirs, tmpdirs, fs, pc, outcome, ok, sum, result, updated>>

TestRecord(j) == [name |-> JobList[j].test.name, checksum |-> Absent,
                  sequence |-> Absent]

\* What an earlier run of the batch can have left of output o.  Nothing
\* at the start of run_tests clears the working directory, and the cleanup
\* of lines 376-383 removes only the two yuv files and tmp_{sequence}: the
\* bitstream stays unless that run's encoder failed, the validator's
\* _sdk.bit stays when its validator succeeded, and the recon stays only
\* when that job stopped before line 378 (it raised, or the batch was
\* killed).  The encoder is deterministic, so a bitstream left is the one
\* this run encodes.
LeftoverFiles(o) ==
    LET s == Stream(CHOOSE j \in Jobs : Output(j) = o)
    IN  {[bit |-> Absent, sdkbit |-> Absent, recon |-> r] : r \in {Absent, Pic(s)}}
        \cup {[bit |-> s, sdkbit |-> k, recon |-> r] :
                 k \in {Absent, s}, r \in {Absent, Pic(s)}}

LeftoverKinds == {"bit", "sdkbit", "recon"}

\* What an earlier run can have left in the directory of test category c:
\* the userdata_enc.bin of a job of c whose decoder wrote no
\* userdata_dec.bin, which lines 392-403 then neither rename nor remove.
LeftoverUserData(c) ==
    {Absent} \cup {UserData(Stream(j)) : j \in {k \in Jobs : Category(k) = c
                                                /\ JobList[k].test.userdata}}

Leftovers ==
    {[p \in Paths |-> CASE p[1] \in LeftoverKinds -> l[p[2]][p[1]]
                        [] p[1] = "userdata_enc" -> u[p[2]]
                        [] OTHER -> Absent] :
        l \in {x \in [Outputs -> UNION {LeftoverFiles(o) : o \in Outputs}] :
                  \A o \in Outputs : x[o] \in LeftoverFiles(o)},
        u \in {y \in [Categories -> {Absent} \cup Contents] :
                  \A c \in Categories : y[c] \in LeftoverUserData(c)}}

ExecInit ==
    /\ dirs = IF Rerun THEN Categories ELSE {}
    /\ tmpdirs = {}
    /\ fs \in IF Rerun THEN Leftovers ELSE {[p \in Paths |-> Absent]}
    /\ pc = [j \in Jobs |-> "queued"]
    /\ outcome = [j \in Jobs |-> [enc |-> "none", dec |-> "none",
                                  val |-> "none", har |-> "none"]]
    /\ ok = [j \in Jobs |-> [enc |-> FALSE, dec |-> FALSE, val |-> FALSE,
                             har |-> FALSE, ltm |-> FALSE, sdk |-> FALSE,
                             ud |-> FALSE]]
    /\ sum = [j \in Jobs |-> [enc |-> Absent, dec |-> Absent, sdk |-> Absent]]
    /\ result = [j \in Jobs |-> FALSE]
    /\ updated = [j \in Jobs |-> TestRecord(j)]

Goto(j, to) == pc' = [pc EXCEPT ![j] = to]

\* run_subprocess (lines 127-169) returns p.wait() == 0; an outcome of an
\* external tool other than "fail" is an exit code of 0.
ExitedZero(o) == o # "fail"

-----------------------------------------------------------------------------
(* Lines 212-222: the test directory is created if it does not exist.     *)

\* Line 216: if not os.path.exists(category)
CheckDir(j) ==
    /\ pc[j] = "exists"
    /\ Goto(j, IF Category(j) \in dirs THEN "setup" ELSE "mkdir")
    /\ UNCHANGED <<dirs, tmpdirs, fs, outcome, ok, sum, result, updated>>

\* Line 217: os.mkdir raises FileExistsError if the directory exists by now.
MakeDir(j) ==
    /\ pc[j] = "mkdir"
    /\ IF Category(j) \in dirs
          THEN Goto(j, "raised") /\ UNCHANGED dirs
          ELSE Goto(j, "setup") /\ dirs' = dirs \cup {Category(j)}
    /\ UNCHANGED <<tmpdirs, fs, outcome, ok, sum, result, updated>>

\* Lines 191-196 and 233-234: a test that generates its own base has
\* base_recon removed from its parameters.
HasBaseRecon(j) == ~JobList[j].test.generate_base

\* Lines 218-300: chdir into the test directory, write the .cfg, build the
\* argument lists and make tmp_{sequence}; the harness arguments read
\* parameters['base_recon'] (line 296), a KeyError when it was removed.
Setup(j) ==
    /\ pc[j] = "setup"
    /\ tmpdirs' = tmpdirs \cup {Output(j)}
    /\ Goto(j, IF HasBaseRecon(j) THEN "encode" ELSE "raised")
    /\ UNCHANGED <<dirs, fs, outcome, ok, sum, result, updated>>

-----------------------------------------------------------------------------
(* Lines 302-334: the external tools.                                     *)

\* What the encoder leaves behind: "ok" a bitstream and its recon, "bug" a
\* recon that is not what the bitstream decodes to, "fail" (exit code not
\* 0) nothing.  A stream with user data also leaves userdata_enc.bin.
EncoderWrites(j, o) ==
    LET s  == Stream(j)
        ud == IF HasUserData(s) THEN Path("userdata_enc", j) :> UserData(s)
                                ELSE <<>>
    IN  CASE o = "ok"  -> (Path("bit", j) :> s) @@ (Path("recon", j) :> Pic(s)) @@ ud
          [] o = "bug" -> (Path("bit", j) :> s) @@ (Path("recon", j) :> Junk("enc", j)) @@ ud
          [] o = "fail" -> <<>>

\* Lines 302-307: with --decode_only the encoder is not run.
Encode(j) ==
    /\ pc[j] = "encode"
    /\ IF DecodeOnly
          THEN /\ ok' = [ok EXCEPT ![j].enc = TRUE]
               /\ outcome' = [outcome EXCEPT ![j].enc = "skipped"]
               /\ UNCHANGED fs
          ELSE \E o \in {"ok", "bug", "fail"} :
               /\ ok' = [ok EXCEPT ![j].enc = ExitedZero(o)]
               /\ outcome' = [outcome EXCEPT ![j].enc = o]
               /\ fs' = EncoderWrites(j, o) @@ fs
    /\ Goto(j, "hashenc")
    /\ UNCHANGED <<dirs, tmpdirs, sum, result, updated>>

\* Variant: hashes the recon without checking that it exists.
EncodedChecksumUnguarded(j) == Digest(fs[Path("recon", j)])

\* Lines 309-315.
EncodedChecksum(j) ==
    IF fs[Path("recon", j)] = Absent THEN NoEncodedOutput
    ELSE Digest(fs[Path("recon", j)])

\* Lines 309-334: checksum of the recon (or the sentinel), then md5 of the
\* bitstream when the encoder succeeded: hash_md5 opens it unconditionally
\* and raises FileNotFoundError if it is missing.  Without an encoder the
\* other tools are not run and stay FALSE.
HashEncoded(j) ==
    /\ pc[j] = "hashenc"
    /\ sum' = [sum EXCEPT ![j].enc = EncodedChecksum(j)]
    /\ Goto(j, CASE ok[j].enc /\ fs[Path("bit", j)] = Absent -> "raised"
                 [] ok[j].enc -> "decode"
                 [] OTHER -> "verify")
    /\ UNCHANGED <<dirs, tmpdirs, fs, outcome, ok, result, updated>>

\* The decoder reads the bitstream; "ok" decodes picture and user data,
\* "bug" a wrong picture, "udbug" wrong user data, "fail" exits non-zero.
DecoderOutcomes(bit) ==
    IF bit = Absent THEN {"fail"}
    ELSE {"ok", "bug", "fail"} \cup (IF HasUserData(bit) THEN {"udbug"} ELSE {})

DecoderWrites(j, bit, o) ==
    LET pic == IF o = "bug" THEN Junk("dec", j) ELSE Pic(bit)
        ud  == IF o = "udbug" THEN Junk("ud", j) ELSE UserData(bit)
    IN  IF o = "fail" THEN <<>>
        ELSE (Path("decoded", j) :> pic)
             @@ (IF HasUserData(bit) THEN Path("userdata_dec", j) :> ud ELSE <<>>)

\* Lines 325-326.
Decode(j) ==
    LET bit == fs[Path("bit", j)]
    IN  /\ pc[j] = "decode"
        /\ \E o \in DecoderOutcomes(bit) :
              /\ ok' = [ok EXCEPT ![j].dec = ExitedZero(o)]
              /\ outcome' = [outcome EXCEPT ![j].dec = o]
              /\ fs' = DecoderWrites(j, bit, o) @@ fs
        /\ Goto(j, "validate")
        /\ UNCHANGED <<dirs, tmpdirs, sum, result, updated>>

\* Lines 327-328: the validator repackages the bitstream as _sdk.bit.
Validate(j) ==
    LET bit == fs[Path("bit", j)]
    IN  /\ pc[j] = "validate"
        /\ \E o \in IF bit = Absent THEN {"fail"} ELSE {"ok", "fail"} :
              /\ ok' = [ok EXCEPT ![j].val = ExitedZero(o)]
              /\ outcome' = [outcome EXCEPT ![j].val = o]
              /\ fs' = IF o = "ok" THEN [fs EXCEPT ![Path("sdkbit", j)] = bit] ELSE fs
        /\ Goto(j, "harness")
        /\ UNCHANGED <<dirs, tmpdirs, sum, result, updated>>

\* Lines 329-330: the harness decodes _sdk.bit into tmp_{sequence}/.
Harness(j) ==
    LET sdk == fs[Path("sdkbit", j)]
    IN  /\ pc[j] = "harness"
        /\ \E o \in IF sdk = Absent \/ Output(j) \notin tmpdirs
                       THEN {"fail"} ELSE {"ok", "bug", "fail"} :
              /\ ok' = [ok EXCEPT ![j].har = ExitedZero(o)]
              /\ outcome' = [outcome EXCEPT ![j].har = o]
              /\ fs' = CASE o = "ok"  -> [fs EXCEPT ![Path("sdkout", j)] = Pic(sdk)]
                         [] o = "bug" -> [fs EXCEPT ![Path("sdkout", j)] = Junk("har", j)]
                         [] OTHER -> fs
        /\ Goto(j, "verify")
        /\ UNCHANGED <<dirs, tmpdirs, sum, result, updated>>

-----------------------------------------------------------------------------
(* Lines 336-407: verification, cleanup and the user data check.          *)

\* Lines 336-340.
DecodedChecksum(j) ==
    IF fs[Path("decoded", j)] = Absent THEN NoDecodedOutput
    ELSE Digest(fs[Path("decoded", j)])

\* Variant: checksums the LTM decoder's output in place of the harness's.
SdkChecksumOfDecoded(j) == DecodedChecksum(j)

\* Lines 342-350: the first of the harness outputs that exists.
SdkChecksum(j) ==
    IF fs[Path("sdkout", j)] = Absent THEN NoSDKOutput
    ELSE Digest(fs[Path("sdkout", j)])

\* Lines 336-374: both checksums, the two comparisons, and the checksum and
\* sequence stored into the job's copy of the test.
Verify(j) ==
    /\ pc[j] = "verify"
    /\ sum' = [sum EXCEPT ![j].dec = DecodedChecksum(j), ![j].sdk = SdkChecksum(j)]
    /\ ok' = [ok EXCEPT ![j].ltm = (sum[j].enc = DecodedChecksum(j)),
                        ![j].sdk = (sum[j].enc = SdkChecksum(j))]
    /\ updated' = [updated EXCEPT ![j].checksum = sum[j].enc,
                                  ![j].sequence = JobList[j].sequence]
    /\ Goto(j, "cleanup")
    /\ UNCHANGED <<dirs, tmpdirs, fs, outcome, result>>

\* Lines 376-385: remove the yuv outputs and the harness directory (a
\* failing rmtree is only logged).  Lines 388-390 write the .opl and .txt
\* files, which no job reads.
Cleanup(j) ==
    /\ pc[j] = "cleanup"
    /\ fs' = [fs EXCEPT ![Path("recon", j)] = Absent, ![Path("decoded", j)] = Absent,
                        ![Path("sdkout", j)] = Absent]
    /\ tmpdirs' = tmpdirs \ {Output(j)}
    /\ Goto(j, "userdata")
    /\ UNCHANGED <<dirs, outcome, ok, sum, result, updated>>

\* Line 407: the job's verdict.
Succeeded(j, udOk) ==
    ok[j].enc /\ ok[j].dec /\ ok[j].ltm /\ ok[j].sdk /\ ok[j].har /\ udOk

Finish(j, udOk) ==
    /\ ok' = [ok EXCEPT ![j].ud = udOk]
    /\ result' = [result EXCEPT ![j] = Succeeded(j, udOk)]
    /\ Goto(j, "done")

\* Variant: the isfile("userdata_dec.bin") test of line 394 dropped.
CheckUserDataUnguarded(j) ==
    LET enc == fs[Path("userdata_enc", j)]
    IN  /\ pc[j] = "userdata"
        /\ IF enc = Absent THEN Finish(j, TRUE)
           ELSE /\ ok' = [ok EXCEPT ![j].ud = (enc = fs[Path("userdata_dec", j)])]
                /\ Goto(j, "udmove")
                /\ UNCHANGED result
        /\ UNCHANGED <<dirs, tmpdirs, fs, outcome, sum, updated>>

\* Lines 392-403: if userdata_enc.bin exists, userdata_dec.bin must exist
\* and be equal to it (filecmp); without userdata_enc.bin the check passes.
CheckUserData(j) ==
    LET enc == fs[Path("userdata_enc", j)]
        dec == fs[Path("userdata_dec", j)]
    IN  /\ pc[j] = "userdata"
        /\ CASE enc = Absent -> Finish(j, TRUE)
             [] dec = Absent -> Finish(j, FALSE)
             [] OTHER -> /\ ok' = [ok EXCEPT ![j].ud = (enc = dec)]
                         /\ Goto(j, "udmove")
                         /\ UNCHANGED result
        /\ UNCHANGED <<dirs, tmpdirs, fs, outcome, sum, updated>>

\* Lines 396-397: rename userdata_enc.bin and remove userdata_dec.bin; both
\* raise FileNotFoundError if the file is gone.
MoveUserData(j) ==
    /\ pc[j] = "udmove"
    /\ IF fs[Path("userdata_enc", j)] = Absent \/ fs[Path("userdata_dec", j)] = Absent
          THEN Goto(j, "raised") /\ UNCHANGED <<fs, ok, result>>
          ELSE /\ fs' = [fs EXCEPT ![Path("userdata_enc", j)] = Absent,
                                   ![Path("userdata_dec", j)] = Absent]
               /\ Finish(j, ok[j].ud)
    /\ UNCHANGED <<dirs, tmpdirs, outcome, sum, updated>>

\* One step of job j.
JobStep(j) ==
    \/ CheckDir(j) \/ MakeDir(j) \/ Setup(j)
    \/ Encode(j) \/ HashEncoded(j) \/ Decode(j) \/ Validate(j) \/ Harness(j)
    \/ Verify(j) \/ Cleanup(j) \/ CheckUserData(j) \/ MoveUserData(j)

-----------------------------------------------------------------------------
(* Properties of a job.                                                   *)

ExecTypeOK ==
    /\ dirs \subseteq Categories
    /\ tmpdirs \subseteq Outputs
    /\ fs \in [Paths -> Contents \cup {Absent}]
    /\ pc \in [Jobs -> Steps]
    /\ ok \in [Jobs -> [{"enc", "dec", "val", "har", "ltm", "sdk", "ud"} -> BOOLEAN]]
    /\ sum \in [Jobs -> [{"enc", "dec", "sdk"} -> Checksums \cup {Absent}]]
    /\ result \in [Jobs -> BOOLEAN]

\* Every tool of job j did its work right, on j's own bitstream.
Faithful(j) ==
    /\ outcome[j].enc \in {"ok", "skipped"}
    /\ outcome[j].dec = "ok"
    /\ outcome[j].val = "ok"
    /\ outcome[j].har = "ok"

\* The verdict a finished job returns (line 407) is TRUE exactly when its
\* own encoder, decoder, validator and harness all did their work right:
\* no wrong output passes, no right one fails, whatever other jobs did to
\* the shared directory meanwhile.
Verdict ==
    \A j \in Jobs : pc[j] = "done" => (result[j] <=> Faithful(j))

=============================================================================
