-------------------------- MODULE ParameterResolver --------------------------
(***************************************************************************)
(* How a job's parameters are put together (src/stress_tests/conformance.py):*)
(* the defaults run_tests derives for the job (lines 449-483), the test's  *)
(* own parameters, an include file and what parse_vooya_filename reads    *)
(* from the input file name are merged by test_encode_decode (178-196),   *)
(* and the decoder arguments are derived from the result (268-279).       *)
(* A parameter set is a function from key to value; Python's {**a, **b}   *)
(* is b @@ a.  A file name is its sequence of "_"-separated tokens, each   *)
(* given by the IMAGE_NAME_PARAMS pattern it matches (lines 48-54):        *)
(*   [kind |-> "dim", w, h]         "1920x1080"                           *)
(*   [kind |-> "fps", n]            "50fps", "50hz"                        *)
(*   [kind |-> "depth", d, unit]    "10bit", "10bits", "10bpp"             *)
(*   [kind |-> "fmt", f]            exactly "420p", "422p", "yuv", "y"...  *)
(*   [kind |-> "word", w]           anything else                          *)
(***************************************************************************)
EXTENDS Naturals, Sequences, SequencesExt

Put(f, k, v) == (k :> v) @@ f
Drop(f, ks) == Restrict(f, DOMAIN f \ ks)
StartsWith(s, p) == Len(s) >= Len(p) /\ SubSeq(s, 1, Len(p)) = p
EndsWith(s, p) == Len(s) >= Len(p) /\ SubSeq(s, Len(s) - Len(p) + 1, Len(s)) = p

\* Lines 61-65: what one token contributes; a later token overwrites.
TokenParams(t) ==
    CASE t.kind = "dim"   -> ("width" :> t.w) @@ ("height" :> t.h)
      [] t.kind = "fps"   -> "fps" :> t.n
      [] t.kind = "depth" -> "bit_depth" :> t.d
      [] t.kind = "fmt"   -> "format" :> t.f
      [] OTHER            -> <<>>

\* Variant: appends the depth but keeps bit_depth.
WithDepthKept(p) ==
    IF "bit_depth" \in DOMAIN p
    THEN Put(p, "format",
             (IF "format" \in DOMAIN p THEN p["format"] ELSE "420p") \o p["bit_depth"])
    ELSE p

\* Lines 67-73: a bit depth is appended to the format, 420p if none was
\* given, and a format starting with 4 gets the prefix yuv.
WithDepth(p) ==
    IF "bit_depth" \in DOMAIN p
    THEN Put(Drop(p, {"bit_depth"}), "format",
             (IF "format" \in DOMAIN p THEN p["format"] ELSE "420p") \o p["bit_depth"])
    ELSE p

WithYuvPrefix(p) ==
    IF "format" \in DOMAIN p /\ StartsWith(p["format"], "4")
    THEN Put(p, "format", "yuv" \o p["format"])
    ELSE p

\* Lines 56-82 (the int() conversions of 75-80 are in the tokens already).
ParseVooyaFilename(tokens) ==
    WithYuvPrefix(WithDepth(
        FoldLeft(LAMBDA p, t : TokenParams(t) @@ p, <<>>, tokens)))

\* Lines 477-483: the first "[0-9]+bit" in the name gives the bit depth;
\* "luma" in the name makes the format monochrome.
BuilderFormat(tokens) ==
    LET depths == SelectSeq(tokens, LAMBDA t : t.kind = "depth" /\ t.unit # "bpp")
        luma   == \E i \in 1..Len(tokens) : tokens[i] = [kind |-> "word", w |-> "luma"]
    IN  (IF luma THEN "y" ELSE "yuv420p") \o Head(depths).d

\* Lines 449-475 and 477-483: the defaults of a job.
JobDefaults(codec, resolution, inputFile, baseName) ==
    [base_encoder |-> codec, width |-> resolution[1], height |-> resolution[2],
     input_file |-> inputFile, base |-> baseName \o ".bit",
     base_recon |-> baseName \o ".yuv", format |-> BuilderFormat(inputFile)]

\* Variant: the test's own parameters over the defaults.
MergeTestOverDefaults(testParams, defaults) == testParams @@ defaults

\* Line 179: {**test['parameters'], **default_parameters}.
MergeDefaults(testParams, defaults) == defaults @@ testParams

\* Variant: the include file over everything else.
ResolveIncludeOnTop(testParams, defaults, include, generateBase) ==
    LET p2 == include @@ MergeDefaults(testParams, defaults)
        p3 == p2 @@ ParseVooyaFilename(p2["input_file"])
    IN  IF generateBase THEN Drop(p3, {"base", "base_recon"}) ELSE p3

\* Lines 178-196: defaults over the test's parameters, those over the
\* include file, those over the file name; then base and base_recon go
\* when the test generates its own base.  include is <<>> when the test
\* names no include file.
ResolveParameters(testParams, defaults, include, generateBase) ==
    LET p1 == MergeDefaults(testParams, defaults)
        p2 == p1 @@ include
        p3 == p2 @@ ParseVooyaFilename(p2["input_file"])
    IN  IF generateBase THEN Drop(p3, {"base", "base_recon"}) ELSE p3

\* Lines 268-273: --base_external=true unless the format starts with yuv
\* and does not end with 12 or 14.
BaseExternal(p) ==
    /\ "format" \in DOMAIN p
    /\ \/ ~StartsWith(p["format"], "yuv")
       \/ EndsWith(p["format"], "12")
       \/ EndsWith(p["format"], "14")

\* Lines 276-279: the validator's name for the base codec.
ValidatorBaseType(p) ==
    IF p["base_encoder"] = "avc" THEN "h264" ELSE p["base_encoder"]

-----------------------------------------------------------------------------
(* Lines 197-206 and 224-233: the paths of the parameters are made         *)
(* absolute against the input and base directories, and, once the process *)
(* has moved into the test directory, relative to it again.  A path is    *)
(* [abs, parts]: whether it starts at the root, and its components; ""   *)
(* is [abs |-> FALSE, parts |-> <<>>].  Symbolic links are not modelled.   *)

\* os.path.join(d, p): p itself when it is absolute.
Join(d, p) == IF p.abs THEN p ELSE [abs |-> d.abs, parts |-> d.parts \o p.parts]

\* posixpath.normpath of an absolute path: "." is dropped and ".." removes
\* the part before it (at the root there is none).
RECURSIVE NormAbs(_, _)
NormAbs(acc, rest) ==
    IF rest = <<>> THEN acc
    ELSE NormAbs(CASE Head(rest) = "."  -> acc
                   [] Head(rest) = ".." -> IF acc = <<>> THEN acc ELSE Front(acc)
                   [] OTHER             -> Append(acc, Head(rest)),
                 Tail(rest))

\* os.path.abspath(p) with cwd the (absolute) current directory.
AbsPath(p, cwd) == [abs |-> TRUE, parts |-> NormAbs(<<>>, Join(cwd, p).parts)]

\* os.path.relpath(p): ".." for every part of the current directory below
\* the common prefix, then the rest of p; "." when they are equal.
RelPath(p, cwd) ==
    LET a == AbsPath(p, cwd).parts
        c == AbsPath([abs |-> FALSE, parts |-> <<>>], cwd).parts
        n == Max({k \in 0..Min({Len(a), Len(c)}) : SubSeq(a, 1, k) = SubSeq(c, 1, k)})
        r == [k \in 1..Len(c) - n |-> ".."] \o SubSeq(a, n + 1, Len(a))
    IN  [abs |-> FALSE, parts |-> IF r = <<>> THEN <<".">> ELSE r]

\* Variant: the relative path taken before os.chdir(category).
ConvertPathBeforeChdir(p, dir, cwd, category) ==
    RelPath(IF p.abs THEN p ELSE AbsPath(Join(dir, p), cwd), cwd)

\* One path parameter: lines 199-206 against dir (input_dir or base_dir)
\* in the batch's directory cwd, then line 222 and lines 228-233.
ConvertPath(p, dir, cwd, category) ==
    RelPath(IF p.abs THEN p ELSE AbsPath(Join(dir, p), cwd),
            [abs |-> TRUE, parts |-> cwd.parts \o category])

=============================================================================
