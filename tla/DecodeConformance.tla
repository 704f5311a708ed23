-------------------------- MODULE DecodeConformance --------------------------
(***************************************************************************)
(* run_decode (src/stress_tests/run_decode_conformance.py, lines 56-137):  *)
(* re-decodes every .bit of a conformance package in the order glob       *)
(* returns them, choosing the base codec from the stream's .cfg, from its *)
(* name, or from --base, then compares the decoded picture with the       *)
(* stored .yuv.md5 and the decoded user data with the stored               *)
(* {name}_userdata.bin.  The loop runs in one process, so the only state   *)
(* carried from one file to the next is what it leaves behind: the local  *)
(* variables base_run and base_external, and the file userdata_dec.bin    *)
(* the decoder writes into the package directory.                         *)
(*                                                                         *)
(* A file of the package is a record:                                      *)
(*   id       which stream                                                 *)
(*   seq      the sequence word its name contains ("Cactus", ...)          *)
(*   depth    the "<n>bit" its name contains                               *)
(*   cfg      whether {name}.cfg exists (conformance.py writes it with the *)
(*            base_encoder and format the stream was encoded with)         *)
(*   codec, format   what the stream really was encoded with               *)
(*   md5      whether {name}.yuv.md5 exists                                *)
(*   payload  the user data the stream carries, or NoUserData              *)
(*   storedUd whether {name}_userdata.bin exists                           *)
(***************************************************************************)
EXTENDS ParameterResolver, FiniteSets

CONSTANTS
    Package,     \* the set of .bit files glob("**/*.bit") finds
    Base,        \* args.base: "auto" or a base codec
    Absent,      \* a file that does not exist
    NoUserData,  \* the stream carries no user data
    Unset        \* a local variable not yet bound

VARIABLES
    order,         \* the order glob returned the files in
    i,             \* index of the file the loop is at
    pc,            \* "select" (lines 61-89) or "decode" (92-137)
    baseRun,       \* base_run
    baseExternal,  \* base_external
    udDec,         \* content of userdata_dec.bin, or Absent
    used,          \* history: the base arguments each file was decoded with
    outcome,       \* history: what the decoder did with each file
    report,        \* the lines printed for each file
    phase          \* "running", "done" or "crashed"

decodeVars == <<order, i, pc, baseRun, baseExternal, udDec, used, outcome,
                report, phase>>

Pic(f) == <<"picture", f.id>>
Junk(f) == <<"junk", f.id>>

\* Lines 67-74: --base_external=true unless the format is yuv and not 12 or
\* 14 bit.
CfgBaseExternal(format) ==
    ~StartsWith(format, "yuv") \/ EndsWith(format, "12") \/ EndsWith(format, "14")

\* Lines 81-84: a ParkRunning3 stream needs the external base when its name
\* says 12bit or 14bit.
NameBaseExternal12Only(f) == f.depth = "12bit"   \* variant: forgets 14bit
NameBaseExternal(f) == f.depth \in {"12bit", "14bit"}

\* Lines 87-89 (--base given), 63-74 (a .cfg), 76-84 (a known name); 86
\* evaluates NameError without raising it, so base_run and base_external
\* keep the values of the previous file.
SelectBase ==
    LET f == order[i]
    IN  /\ phase = "running"
        /\ pc = "select"
        /\ CASE Base # "auto" ->
                    baseRun' = Base /\ baseExternal' = FALSE
             [] f.cfg ->
                    baseRun' = f.codec /\ baseExternal' = CfgBaseExternal(f.format)
             [] f.seq \in {"Cactus", "CanYouReadThis"} ->
                    baseRun' = "avc" /\ baseExternal' = FALSE
             [] f.seq = "ParkRunning3" ->
                    baseRun' = "hevc" /\ baseExternal' = NameBaseExternal(f)
             [] OTHER -> UNCHANGED <<baseRun, baseExternal>>
        /\ pc' = "decode"
        /\ UNCHANGED <<order, i, udDec, used, outcome, report, phase>>

\* The external decoder.  Given the base the stream was encoded with it
\* decodes it ("ok"), gets the picture wrong ("bug"), loses the user data
\* ("noud") or exits non-zero ("fail"); given another base it produces no
\* usable picture ("wrong") or fails.
Matches(f, run, ext) == run = f.codec /\ ext = CfgBaseExternal(f.format)

DecoderOutcomes(f, run, ext) ==
    IF Matches(f, run, ext)
    THEN {"ok", "bug", "fail"} \cup (IF f.payload # NoUserData THEN {"noud"} ELSE {})
    ELSE {"wrong", "fail"}

\* userdata_dec.bin after the decoder ran: rewritten when it decoded the
\* stream's user data, left as it was otherwise.
UserDataAfter(f, o) ==
    IF o \in {"ok", "bug"} /\ f.payload # NoUserData THEN f.payload ELSE udDec

\* What {name}.yuv holds after the decoder exited 0.
DecodedPicture(f, o) == IF o \in {"ok", "noud"} THEN Pic(f) ELSE Junk(f)

\* Lines 108-119: the md5 of the decoded picture against the stored md5
\* of the encoder's recon; without a stored md5 it is only printed.
ChecksumLine(f, o) ==
    CASE ~f.md5                        -> "printed"
      [] DecodedPicture(f, o) = Pic(f) -> "OK"
      [] OTHER                         -> "FAILED"

\* Lines 122-128: with a stored {name}_userdata.bin, userdata_dec.bin must
\* exist and be equal to it, and is then removed; without one nothing is
\* compared and userdata_dec.bin stays.
UserDataLine(f, ud) ==
    CASE ~f.storedUd -> "none"
      [] ud = Absent -> "FAILED"
      [] OTHER       -> IF ud = f.payload THEN "OK" ELSE "FAILED"

UserDataLeftAlways(f, ud) == ud   \* variant: line 125 dropped
UserDataLeft(f, ud) == IF f.storedUd THEN Absent ELSE ud

\* Line 60: the loop ends after the last file glob returned.
LastFileLate(k) == k = Len(order) + 1   \* variant: one iteration too many
LastFile(k) == k = Len(order)

\* Lines 92-137: decode one file and check it.  base_run is bound only by
\* lines 66, 77, 80 or 88: reading it unbound raises UnboundLocalError.
DecodeFile ==
    LET f == order[i]
    IN  /\ phase = "running"
        /\ pc = "decode"
        /\ IF baseRun = Unset
              THEN /\ phase' = "crashed"
                   /\ UNCHANGED <<i, pc, udDec, used, outcome, report>>
              ELSE \E o \in DecoderOutcomes(f, baseRun, baseExternal) :
                   LET ud == UserDataAfter(f, o)
                   IN  /\ used' = Append(used, [run |-> baseRun, ext |-> baseExternal])
                       /\ outcome' = Append(outcome, o)
                       /\ IF o = "fail"
                             THEN /\ report' = Append(report, [md5 |-> "decodefail", ud |-> "none"])
                                  /\ udDec' = ud
                             ELSE /\ report' = Append(report, [md5 |-> ChecksumLine(f, o),
                                                               ud |-> UserDataLine(f, ud)])
                                  /\ udDec' = UserDataLeft(f, ud)
                       /\ i' = i + 1
                       /\ pc' = "select"
                       /\ phase' = IF LastFile(i) THEN "done" ELSE "running"
        /\ UNCHANGED <<order, baseRun, baseExternal>>

Init ==
    /\ order \in SetToSeqs(Package)
    /\ i = 1
    /\ pc = "select"
    /\ baseRun = Unset
    /\ baseExternal = Unset
    /\ udDec = Absent
    /\ used = <<>>
    /\ outcome = <<>>
    /\ report = <<>>
    /\ phase = IF Package = {} THEN "done" ELSE "running"

\* The script has returned, or ended with an exception.
Finished ==
    /\ phase \in {"done", "crashed"}
    /\ UNCHANGED decodeVars

Next == SelectBase \/ DecodeFile \/ Finished

Spec == Init /\ [][Next]_decodeVars

-----------------------------------------------------------------------------
(* Properties of a run over a package.                                    *)

Outcomes == {"ok", "bug", "noud", "wrong", "fail"}

TypeOK ==
    /\ order \in SetToSeqs(Package)
    /\ phase \in {"running", "done", "crashed"}
    /\ phase = "running" => i \in 1..Len(order)
    /\ pc \in {"select", "decode"}
    /\ used \in Seq([run : STRING \cup {Unset}, ext : BOOLEAN])
    /\ outcome \in Seq(Outcomes)
    /\ Len(report) = Len(outcome) /\ Len(used) = Len(outcome)

\* Every file is decoded with the base codec and the --base_external flag
\* its own stream needs (section 6 of the spec: the external base for a
\* format that is not planar 4:2:0 or is 12 or 14 bit).  For a file
\* without a .cfg, such as the _sdk.bit conformance.py leaves beside each
\* stream, the name rules of lines 76-84 must agree with the .cfg rule of
\* lines 63-74; and no file may be decoded with the base_run and
\* base_external carried over from the file glob returned before it.
DecodedWithOwnBase ==
    \A k \in 1..Len(used) : Matches(order[k], used[k].run, used[k].ext)

\* What the script prints for a file is true of that file's own decode: a
\* checksum reported OK exactly when its decoder produced the right
\* picture, user data reported OK exactly when its decoder emitted the
\* stream's user data, whatever userdata_dec.bin earlier files left.
ReportTruthful ==
    \A k \in 1..Len(report) :
        /\ report[k].md5 \in {"OK", "FAILED"} =>
               (report[k].md5 = "OK" <=> outcome[k] \in {"ok", "noud"})
        /\ report[k].ud \in {"OK", "FAILED"} =>
               (report[k].ud = "OK" <=> outcome[k] \in {"ok", "bug"})

=============================================================================
