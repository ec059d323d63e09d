----------------------------- MODULE SpsParser -----------------------------
(***************************************************************************)
(* SPSParser of resources/flv.js: what a sequence parameter set of H.264   *)
(* says of the pictures.  Its fields have no fixed place: which come, and  *)
(* how long each is, depends on those before, so one misread field makes   *)
(* nonsense of the rest.                                                   *)
(*                                                                         *)
(* The code of parseSPS is laid out here as sections made of parts.  A     *)
(* part is <<when, fields, list>>: fields that are read together, once,    *)
(* several times or not at all, and the number of a scaling list.  "when"  *)
(* is a case of Times below, or the name of a flag or counter read before. *)
(* A parser "p" is a reader and the fields it has read; "skipped" takes    *)
(* what the code reads and does not keep.                                  *)
(***************************************************************************)
EXTENDS ExpGolomb

\* _ebsp2rbsp: the threes that keep a start code out of the data go.
Ebsp2rbsp(bytes) ==
    LET escape(i) == i > 2 /\ bytes[i] = 3 /\ bytes[i - 1] = 0 /\ bytes[i - 2] = 0
    IN  FoldLeft(LAMBDA out, i : IF escape(i) THEN out ELSE Append(out, bytes[i]),
                 <<>>, [i \in DOMAIN bytes |-> i])

NewParser(bytes) ==
    [gb |-> NewExpGolomb(bytes),
     f  |-> [skipped |-> 0, profile_idc |-> 0, level_idc |-> 0, chroma_format_idc |-> 1,
             bit_depth_luma_minus8 |-> 0, scaling_matrix |-> 0, scaling_list |-> 0,
             delta_scale |-> 0, last_scale |-> 8, next_scale |-> 8,
             pic_order_cnt_type |-> 0, cycle |-> 0, max_num_ref_frames |-> 0,
             width_in_mbs_minus1 |-> 0, height_in_map_units_minus1 |-> 0, frame_mbs_only |-> 0,
             cropping |-> 0, crop_left |-> 0, crop_right |-> 0, crop_top |-> 0, crop_bottom |-> 0,
             vui |-> 0, aspect_ratio |-> 0, aspect_ratio_idc |-> 0, sar_width |-> 1, sar_height |-> 1,
             overscan |-> 0, video_signal |-> 0, colour |-> 0, chroma_loc |-> 0, timing |-> 0,
             num_units_in_tick |-> 0, time_scale |-> 0, fixed |-> 1]]

-----------------------------------------------------------------------------
Header == << <<"once", <<<<"skipped", 8>>, <<"profile_idc", 8>>, <<"skipped", 8>>,
                         <<"level_idc", 8>>, <<"skipped", UE>>>>, 0>> >>

Chroma ==
 << <<"high", <<<<"chroma_format_idc", UE>>>>, 0>>,
    <<"planes", <<<<"skipped", 1>>>>, 0>>,
    <<"high", <<<<"bit_depth_luma_minus8", UE>>, <<"skipped", UE>>, <<"skipped", 1>>,
                <<"scaling_matrix", 1>>>>, 0>> >>

ScalingLists ==
    [i \in 1..12 |-> << <<"list", <<<<"scaling_list", 1>>>>, i>>,
                        <<"scales", <<<<"delta_scale", SE>>>>, i>> >>]

PicOrderCnt ==
 << <<"once", <<<<"skipped", UE>>, <<"pic_order_cnt_type", UE>>>>, 0>>,
    <<"order0", <<<<"skipped", UE>>>>, 0>>,
    <<"order1", <<<<"skipped", 1>>, <<"skipped", SE>>, <<"skipped", SE>>, <<"cycle", UE>>>>, 0>>,
    <<"cycle", <<<<"skipped", SE>>>>, 0>> >>

FrameSize ==
 << <<"once", <<<<"max_num_ref_frames", UE>>, <<"skipped", 1>>, <<"width_in_mbs_minus1", UE>>,
                <<"height_in_map_units_minus1", UE>>, <<"frame_mbs_only", 1>>>>, 0>>,
    <<"fields", <<<<"skipped", 1>>>>, 0>>,
    <<"once", <<<<"skipped", 1>>, <<"cropping", 1>>>>, 0>>,
    <<"cropping", <<<<"crop_left", UE>>, <<"crop_right", UE>>,
                    <<"crop_top", UE>>, <<"crop_bottom", UE>>>>, 0>> >>

Vui ==
 << <<"once", <<<<"vui", 1>>>>, 0>>,
    <<"vui", <<<<"aspect_ratio", 1>>>>, 0>>,
    <<"aspect_ratio", <<<<"aspect_ratio_idc", 8>>>>, 0>>,
    <<"extended", <<<<"sar_width", 16>>, <<"sar_height", 16>>>>, 0>>,
    <<"vui", <<<<"overscan", 1>>>>, 0>>,
    <<"overscan", <<<<"skipped", 1>>>>, 0>>,
    <<"vui", <<<<"video_signal", 1>>>>, 0>>,
    <<"video_signal", <<<<"skipped", 4>>, <<"colour", 1>>>>, 0>>,
    <<"colour", <<<<"skipped", 24>>>>, 0>>,
    <<"vui", <<<<"chroma_loc", 1>>>>, 0>>,
    <<"chroma_loc", <<<<"skipped", UE>>, <<"skipped", UE>>>>, 0>>,
    <<"vui", <<<<"timing", 1>>>>, 0>>,
    <<"timing", <<<<"num_units_in_tick", 32>>, <<"time_scale", 32>>, <<"fixed", 1>>>>, 0>> >>

Sections == <<Header, Chroma>> \o ScalingLists \o <<PicOrderCnt, FrameSize, Vui>>

-----------------------------------------------------------------------------
HighProfiles == {100, 110, 122, 244, 44, 83, 86, 118, 128, 138, 144}

HasList(f, i) == f.scaling_matrix = 1 /\ i <= IF f.chroma_format_idc # 3 THEN 8 ELSE 12

One(condition) == IF condition THEN 1 ELSE 0

\* How often a part comes.
Times(f, when, i) ==
    CASE when = "once"     -> 1
      [] when = "high"     -> One(f.profile_idc \in HighProfiles)
      [] when = "planes"   -> One(f.chroma_format_idc = 3)
      [] when = "list"     -> One(HasList(f, i))
      [] when = "scales"   -> One(HasList(f, i)) * f.scaling_list * IF i <= 6 THEN 16 ELSE 64
      [] when = "order0"   -> One(f.pic_order_cnt_type = 0)
      [] when = "order1"   -> One(f.pic_order_cnt_type = 1)
      [] when = "fields"   -> One(f.frame_mbs_only = 0)
      [] when = "extended" -> One(f.aspect_ratio_idc = 255)
      [] OTHER             -> f[when]

\* _skipScalingList: after a scale of zero nothing more is read of a list.
NextScale(f, next) ==
    [f EXCEPT !.next_scale = next, !.last_scale = IF next = 0 THEN @ ELSE next]

Kept(f, name, value) ==
    CASE name = "scaling_list" -> [f EXCEPT !.scaling_list = value, !.last_scale = 8, !.next_scale = 8]
      [] name = "delta_scale"  -> NextScale(f, (f.last_scale + value + 256) % 256)
      [] OTHER                 -> [f EXCEPT ![name] = value]

Stored(f, name, gb) == [gb |-> gb, f |-> Kept(f, name, gb.result)]

Field(p, name, kind) ==
    IF p.gb.thrown \/ (name = "delta_scale" /\ p.f.next_scale = 0) THEN p
    ELSE Stored(p.f, name, Read(p.gb, kind))

\* Nothing is read any more once the reader has thrown.
ReadPart(p, part) ==
    IF p.gb.thrown THEN p
    ELSE FoldLeft(LAMBDA q, field : Field(q, field[1], field[2]), p,
                  FlattenSeq([n \in 1..Times(p.f, part[1], part[3]) |-> part[2]]))

ReadSection(p, parts) == IF p.gb.thrown THEN p ELSE FoldLeft(ReadPart, p, parts)

-----------------------------------------------------------------------------
\* The shapes of a sample there are numbers for; anything else is a square.
SarWidth  == <<1, 12, 10, 16, 40, 24, 20, 32, 80, 18, 15, 64, 160, 4, 3, 2>>
SarHeight == <<1, 11, 11, 11, 33, 11, 11, 11, 33, 11, 11, 33, 99, 3, 2, 1>>

\* The size of the pictures once the fields are known.
CodecSize(f) ==
    LET fields == 2 - f.frame_mbs_only
        unit_x == IF f.chroma_format_idc \in {0, 3} THEN 1 ELSE 2
        unit_y == fields * IF f.chroma_format_idc = 1 THEN 2 ELSE 1
    IN  [width  |-> (f.width_in_mbs_minus1 + 1) * 16 - (f.crop_left + f.crop_right) * unit_x,
         height |-> fields * (f.height_in_map_units_minus1 + 1) * 16 - (f.crop_top + f.crop_bottom) * unit_y]

Sar(f) ==
    IF f.aspect_ratio_idc \in 1..15
    THEN [width |-> SarWidth[f.aspect_ratio_idc], height |-> SarHeight[f.aspect_ratio_idc]]
    ELSE [width |-> f.sar_width, height |-> f.sar_height]

\* Math.ceil(codec_width * sarScale), without the rounding of the quotient.
PresentWidth(f) == (CodecSize(f).width * Sar(f).width + Sar(f).height - 1) \div Sar(f).height

\* The rate of the pictures; 23.976 where none is fixed.
FrameRate(f) ==
    IF f.fixed = 0 \/ f.time_scale = 0 \/ f.num_units_in_tick = 0
    THEN [num |-> 23976, den |-> 1000]
    ELSE [num |-> f.time_scale, den |-> 2 * f.num_units_in_tick]

Summary(f, thrown) ==
    [thrown |-> thrown, codec_size |-> CodecSize(f), present_width |-> PresentWidth(f),
     bit_depth |-> f.bit_depth_luma_minus8 + 8, ref_frames |-> f.max_num_ref_frames,
     frame_rate |-> FrameRate(f)]

ParseSPS(bytes) ==
    LET p == FoldLeft(ReadSection, NewParser(Ebsp2rbsp(bytes)), Sections)
    IN  Summary(p.f, p.gb.thrown)
=============================================================================
