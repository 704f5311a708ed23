------------------------- MODULE MCParameterResolver -------------------------
(***************************************************************************)
(* Resolves the parameters of every job that a small test matrix can      *)
(* produce: the state holds the inputs of one job and, after the one      *)
(* Resolve step, its resolved parameters.                                 *)
(***************************************************************************)
EXTENDS ParameterResolver, JobBuilder, ConformanceArtifacts, FiniteSets

CONSTANT None

Dim(w, h) == [kind |-> "dim", w |-> w, h |-> h]
Fps(n) == [kind |-> "fps", n |-> n]
Depth(d, u) == [kind |-> "depth", d |-> d, unit |-> u]
Fmt(f) == [kind |-> "fmt", f |-> f]
Word(w) == [kind |-> "word", w |-> w]

\* Input file names of the kind inputs.json lists (each has an "Nbit").
InputFiles == {
    <<Word("Cactus"), Dim(1920, 1080), Fps(50), Depth("10", "bit")>>,
    <<Word("Park"), Dim(3840, 2160), Depth("12", "bit"), Fmt("420p")>>,
    <<Word("Park"), Dim(3840, 2160), Depth("14", "bits")>>,
    <<Word("Read"), Depth("8", "bit"), Word("luma")>>,
    <<Word("Read"), Depth("8", "bit"), Fmt("422p"), Depth("10", "bpp")>>,
    <<Word("Cactus"), Fmt("yuv"), Depth("10", "bit"), Fps(25)>> }

Codecs == {"avc", "hevc"}
Resolution == [c \in Codecs |-> IF c = "avc" THEN <<1920, 1080>> ELSE <<3840, 2160>>]

\* A test's parameters: it may set the format, a base, a resolution.
TestParams == {
    [encapsulation |-> "nal", qp |-> "30"],
    [encapsulation |-> "nal", qp |-> "30", format |-> "yuv422p10"],
    [encapsulation |-> "nal", qp |-> "30", width |-> 1280, base |-> ""],
    [encapsulation |-> "nal", format |-> "y8"] }

\* The include file, if any.
Includes == { <<>>, [qp |-> "22"], [qp |-> "22", format |-> "yuv444p10", fps |-> 60] }

Inputs ==
    [codec : Codecs, inputFile : InputFiles, test : TestParams,
     include : Includes, generateBase : BOOLEAN]

VARIABLES input, params

Defaults(in) == JobDefaults(in.codec, Resolution[in.codec], in.inputFile, "base")

Init ==
    /\ input \in Inputs
    /\ params = None

Resolve ==
    /\ params = None
    /\ params' = ResolveParameters(input.test, Defaults(input), input.include,
                                   input.generateBase)
    /\ UNCHANGED input

Spec == Init /\ [][Resolve]_<<input, params>>

-----------------------------------------------------------------------------

Keys == {"width", "height", "fps", "format", "base_encoder", "encapsulation",
         "qp", "input_file", "base", "base_recon"}

TypeOK ==
    /\ input \in Inputs
    /\ params = None \/ DOMAIN params \subseteq Keys

\* Section 4.1 of the spec: a key set by several sources takes the value of
\* the highest of file name < include file < test < defaults, the same for
\* every key; base and base_recon are gone when the test generates its base.
Precedence ==
    params # None =>
        LET d    == Defaults(input)
            srcs == <<ParseVooyaFilename(d["input_file"]), input.include, input.test, d>>
            gone == IF input.generateBase THEN {"base", "base_recon"} ELSE {}
            keys == UNION {DOMAIN srcs[i] : i \in 1..4} \ gone
            top(k) == CHOOSE i \in 1..4 : k \in DOMAIN srcs[i] /\
                          \A m \in i + 1..4 : k \notin DOMAIN srcs[m]
        IN  params = [k \in keys |-> srcs[top(k)][k]]

\* Section 6 of the spec: the decoder is given --base_external=true exactly
\* when the format is not planar 4:2:0 or is 12 or 14 bit planar 4:2:0,
\* whatever format a test or an include file asks for.
BaseExternalAsSpecified ==
    params # None =>
        (BaseExternal(params) <=>
            \/ ~StartsWith(params["format"], "yuv420p")
            \/ EndsWith(params["format"], "12") \/ EndsWith(params["format"], "14"))


-----------------------------------------------------------------------------
(* The job matrix of run_tests against section 4.4 of the spec, over every *)
(* matrix of at most two codecs, two sequences per codec, three tests and *)
(* a --sets filter drawn from the sets below.                             *)

TestPool == {[name |-> n, sets |-> s, generate_base |-> FALSE, userdata |-> FALSE] :
                n \in {"tA"}, s \in {{"avc"}, {"hevc", "smoke"}, {"avc", "hevc"}, {}}}
CodecOrders == {<<"avc">>, <<"avc", "hevc">>, <<"hevc", "avc">>}
SequenceLists == [Codecs -> {<<>>, <<"s1">>, <<"s1", "s2">>}]
TestLists == UNION {[1..n -> TestPool] : n \in 0..3}
Filters == {{}, {"smoke"}, {"avc"}, {"nightly"}}

\* Section 4.4: one job per (codec, sequence, test) where the test's sets
\* include the codec and, when a filter is given, meet the filter; the
\* job numbers follow codec, then sequence, then test order.
SpecifiedJobs(codecs, sequencesOf, tests, testSet) ==
    LET slots == UNION {{<<a, b, c>> : b \in 1..Len(sequencesOf[codecs[a]]),
                                       c \in 1..Len(tests)} : a \in 1..Len(codecs)}
        wanted == {x \in slots : /\ codecs[x[1]] \in tests[x[3]].sets
                                 /\ testSet = {} \/ tests[x[3]].sets \cap testSet # {}}
        before(x, y) == \/ x[1] < y[1]
                        \/ x[1] = y[1] /\ x[2] < y[2]
                        \/ x[1] = y[1] /\ x[2] = y[2] /\ x[3] < y[3]
        ordered == [k \in 1..Cardinality(wanted) |->
                       CHOOSE x \in wanted : Cardinality({y \in wanted : before(y, x)}) = k - 1]
    IN  [k \in 1..Len(ordered) |->
            [codec |-> codecs[ordered[k][1]],
             sequence |-> sequencesOf[codecs[ordered[k][1]]][ordered[k][2]],
             test |-> tests[ordered[k][3]]]]

MatricesAsSpecified ==
    \A codecs \in CodecOrders, sequencesOf \in SequenceLists,
      tests \in TestLists, testSet \in Filters :
        BuildJobs(codecs, sequencesOf, tests, testSet)
            = SpecifiedJobs(codecs, sequencesOf, tests, testSet)

\* The jobs run_tests builds (lines 445-499), whose parameters are the ones
\* resolved here, are exactly those section 4.4 asks for, each once, and
\* job k - 1 is the k-th of them in codec, sequence, test order: the number
\* the pool results are stored under.
JobMatrix == params # None => MatricesAsSpecified

-----------------------------------------------------------------------------
(* The path dance of lines 197-233, over input/base directories that are  *)
(* empty, relative, climbing or absolute, file names with and without    *)
(* "..", and a batch run from a directory or from the root.              *)

Rel(ps) == [abs |-> FALSE, parts |-> ps]
Abs(ps) == [abs |-> TRUE, parts |-> ps]
InputDirs == {Rel(<<>>), Rel(<<"data">>), Rel(<<"..", "data">>), Abs(<<"srv", "data">>)}
FileNames == {Rel(<<"x.yuv">>), Rel(<<"sub", "..", "x.yuv">>), Rel(<<"..", "x.yuv">>),
              Abs(<<"srv", "x.yuv">>)}
BatchDirs == {Abs(<<"w">>), Abs(<<>>)}
TestDir == <<"tP_v-nova_v01">>
PathKeys == {"input_file", "base", "base_recon"}

\* The paths a job hands its tools, relative to the test directory it has
\* moved into, name the same files as the input_file, base and base_recon
\* of its parameters did relative to input_dir or base_dir from the
\* batch's directory; and no path parameter that reaches line 230 is "",
\* for which os.path.relpath raises ValueError (the test's base "" is
\* always overridden by the defaults' base, merged last).
PathsKeepTheirFiles ==
    params # None =>
        /\ \A k \in PathKeys \cap DOMAIN params : params[k] # ""
        /\ \A d \in InputDirs, f \in FileNames, w \in BatchDirs :
              AbsPath(ConvertPath(f, d, w, TestDir), Abs(w.parts \o TestDir))
                  = AbsPath(Join(d, f), w)

-----------------------------------------------------------------------------
(* The conformance files of a job whose parameters are resolved here, for *)
(* every encoder log of at most three lines, and the level at every       *)
(* picture size on and just past a threshold of the rate table.           *)

LogLines == {[tag |-> "MD5Y", y |-> "y1", u |-> "u1", v |-> "v1"],
             [tag |-> "MD5Y", y |-> "y2", u |-> "u2", v |-> "v2"],
             [tag |-> "other"]}
Logs == UNION {[1..n -> LogLines] : n \in 0..3}
MaxLumaRate == <<29410000, 124560000, 527650000>>
Sizes == {<<1700, 346>>, <<1700, 347>>, <<1800, 1384>>, <<1800, 1385>>,
          <<6100, 1730>>, <<6100, 1731>>}

\* Section 4.5 of the spec: the .opl has one row per picture the encoder
\* logged, in log order, numbered from 0, with the job's width and height
\* and the logged digests verbatim; the .txt states as level one more
\* than the number of rate-table entries width * height * 50 exceeds.
ArtifactsAsSpecified ==
    params # None =>
        /\ \A log \in Logs :
              LET pics == SelectSeq(log, LAMBDA l : l.tag = "MD5Y")
              IN  OplRows(params["width"], params["height"], log)
                      = [k \in 1..Len(pics) |->
                            <<k - 1, params["width"], params["height"],
                              pics[k].y, pics[k].u, pics[k].v>>]
        /\ \A sz \in Sizes \cup {<<params["width"], params["height"]>>} :
              TxtManifest(sz[1], sz[2], "out", "d").level
                  = <<1 + Cardinality({l \in 1..3 : sz[1] * sz[2] * 50 > MaxLumaRate[l]}), 1>>

=============================================================================
