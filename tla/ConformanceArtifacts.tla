------------------------- MODULE ConformanceArtifacts -------------------------
(***************************************************************************)
(* The MPEG conformance files a job writes when its LTM check matched      *)
(* (src/stress_tests/conformance.py, create_opl_file and create_txt_file,  *)
(* lines 84-125): a per-picture table of the Y/U/V digests the encoder    *)
(* logged, and a manifest with the conformance level of the picture size. *)
(* A line of the encoder log is a record: [tag |-> "MD5Y", y, u, v] for a  *)
(* line starting "[MD5Y " (its three digest fields, sliced at 6:38, 46:78 *)
(* and 86:118), any other tag for any other line.                         *)
(***************************************************************************)
EXTENDS Naturals, Sequences, SequencesExt

\* Variant: the picture order count starts at 1.
OplRowsPocFromOne(width, height, log) ==
    FoldLeft(LAMBDA acc, l :
                IF l.tag = "MD5Y"
                THEN [poc |-> acc.poc + 1,
                      rows |-> Append(acc.rows, <<acc.poc, width, height, l.y, l.u, l.v>>)]
                ELSE acc,
             [poc |-> 1, rows |-> <<>>], log).rows

\* Lines 84-100: one row [PicOrderCntVal, width, height, md5_y, md5_u,
\* md5_v] per "[MD5Y " line of the log, poc counting those lines from 0.
OplRows(width, height, log) ==
    FoldLeft(LAMBDA acc, l :
                IF l.tag = "MD5Y"
                THEN [poc |-> acc.poc + 1,
                      rows |-> Append(acc.rows, <<acc.poc, width, height, l.y, l.u, l.v>>)]
                ELSE acc,
             [poc |-> 0, rows |-> <<>>], log).rows

\* Lines 103-111: the level from the luma sample rate at 50 pictures per
\* second.
TxtLevel(width, height) ==
    LET rate == width * height * 50
    IN  CASE rate <= 29410000  -> 1
          [] rate <= 124560000 -> 2
          [] rate <= 527650000 -> 3
          [] OTHER             -> 4

\* Lines 102-125: the manifest, as the fields its lines state (the tool
\* version and contact lines are fixed text).
TxtManifest(width, height, output, description) ==
    [bitstream |-> output, explanation |-> description, profile |-> "Main",
     level |-> <<TxtLevel(width, height), 1>>, width |-> width,
     height |-> height, rate |-> 50]

=============================================================================
