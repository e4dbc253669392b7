---------------------------- MODULE MCTranscode ----------------------------
EXTENDS Transcode

\* File 1 has a video stream 1 and an audio stream 2, file 2 a video stream 3.
\* Graph 1 takes both video streams and has two outputs, each for a file of its
\* own; graph 2 takes the audio stream.
MCStreams == <<<<1, 2>>, <<3>>>>
MCInputs == <<<<1, 3>>, <<2>>>>
MCGraphOf == <<1, 2, 1>>
MCDestOf == <<"a", "a", "b">>
MCKind == <<"video", "audio", "video">>
MCDelay == <<1, 0, 0>>
MCLag == <<1, 1>>
Small == <<1, 2>>
Large == <<2, 3>>
MCShape == (1..3) \X (1..3)
MCSample == {"yuv", "rgb", "cuda", "vaapi", "dxva2", "s16", "flt"}

\* Samples of an audio stream have a rate and a number of channels for a shape.
MCDeclared == <<<<Small, "yuv">>, <<Small, "s16">>, <<Small, "yuv">>>>
MCSupported == <<<<"yuv", "cuda">>, <<"flt", "s16">>, <<"rgb", "yuv", "cuda">>>>

\* The decoders of both video streams can use cuda devices.
Config(t, c) == [pix |-> t, type |-> t, ctx |-> c]
MCDecConfigs == <<<<Config("cuda", TRUE), Config("vaapi", TRUE)>>, <<>>,
                  <<Config("dxva2", FALSE), Config("cuda", TRUE)>>>>
MCEncConfigs == <<<<Config("cuda", TRUE)>>, <<>>, <<Config("cuda", FALSE), Config("vaapi", TRUE)>>>>
MCHwAccels == {[id |-> "cuvid", pix |-> "cuda"]}

P(s, shape, sample, c, i) ==
  [stream |-> s, format |-> <<shape, sample>>, copies |-> c, intact |-> i]

\* The formats of streams 1 and 2 change, one frame of stream 1 is shown twice, one
\* of stream 3 is dropped, and one of stream 2 and the first of stream 3 are broken.
MCMedia ==
  <<<<P(1, Small, "yuv", <<1, 0>>, TRUE), P(2, Small, "s16", <<1, 0>>, TRUE),
      P(1, Large, "rgb", <<2, 1>>, TRUE), P(2, Small, "s16", <<1, 0>>, FALSE),
      P(2, Large, "flt", <<1, 0>>, TRUE), P(2, Large, "flt", <<1, 0>>, TRUE),
      P(2, Large, "flt", <<1, 0>>, TRUE)>>,
    <<P(3, Small, "yuv", <<1, 0>>, FALSE), P(3, Small, "yuv", <<0, 0>>, TRUE),
      P(3, Small, "yuv", <<1, 0>>, TRUE)>>>>

Many == 100

NoAccel == [id |-> "none", type |-> Null, name |-> Null, device |-> NoDevice, output |-> Null]

\* Everything is wanted, as it is.
Plain ==
  [maxFrames |-> <<Many, Many, Many>>, shortest |-> [d \in {"a", "b"} |-> FALSE],
   room |-> [d \in {"a", "b"} |-> Many], maxSize |-> [d \in {"a", "b"} |-> Many],
   loop |-> <<0, 0>>, hold |-> <<0, 0, 0>>, realTime |-> FALSE, signal |-> FALSE,
   keep |-> <<FALSE, FALSE, FALSE>>, pix |-> <<Null, Null, Null>>, turned |-> <<FALSE, FALSE, FALSE>>,
   deinterlace |-> FALSE, broken |-> {}, devices |-> <<>>, accel |-> <<NoAccel, NoAccel, NoAccel>>]

Limits == {<<Many, Many, Many>>, <<2, Many, Many>>, <<Many, 1, 3>>}

\* Device specifications, and what a stream may ask for
D(t, n, s) == [type |-> t, name |-> n, source |-> s]

Cuda0 == <<"cuda", 0>>
Cuda1 == <<"cuda", 1>>

Devices ==
  {<<>>, <<D("cuda", Null, Null)>>, <<D("cuda", Null, Null), D("cuda", Null, Null)>>,
   <<D("cuda", Cuda1, Null), D("cuda", Null, Null), D("cuda", Cuda1, Null), D("dxva2", Null, Null)>>,
   <<D("vaapi", Cuda0, Null), D("cuda", Null, Cuda1), D("cuda", Null, Cuda0)>>}

A(i, t, n, o) == [NoAccel EXCEPT !.id = i, !.type = t, !.name = n, !.output = o]

Accels ==
  {A(i, Null, n, Null) : i \in {"none", "auto", "cuvid"}, n \in {Null, Cuda0}}
  \cup {A("generic", t, n, o) : t \in {"cuda", "vaapi"}, n \in {Null, Cuda0}, o \in {Null, "cuda"}}
  \cup {A("generic", "dxva2", Null, Null), A("auto", Null, Null, "cuda")}

WithDevices ==
  {[Plain EXCEPT !.devices = d, !.accel[1] = a, !.accel[3] = a] : d \in Devices, a \in Accels}
  \cup {[Plain EXCEPT !.devices = d, !.accel[1] = a, !.deinterlace = b] :
           d \in Devices, b \in BOOLEAN,
           a \in {A("auto", Null, Null, "cuda"), A("generic", "cuda", Null, Null)}}

WithFormats ==
  {[Plain EXCEPT !.keep[o] = k, !.pix[1] = p, !.broken = b, !.turned[1] = t, !.loop = <<n, 0>>] :
     o \in {1, 3}, k \in BOOLEAN, p \in {Null, "yuv", "rgb"}, b \in {{}, {1}, {3}}, t \in BOOLEAN,
     n \in {0, 1}}
  \cup {[Plain EXCEPT !.signal = TRUE, !.keep[1] = TRUE, !.pix[1] = "rgb", !.hold = h] :
          h \in {<<0, 0, 0>>, <<2, 0, 3>>}}

MCOptions ==
  WithDevices \cup WithFormats \cup
  {[Plain EXCEPT !.realTime = r, !.loop = l, !.hold = h, !.maxFrames = n] : r \in BOOLEAN,
     l \in {<<0, 0>>, <<1, 0>>, <<1, 1>>}, h \in {<<0, 0, 0>>, <<1, 0, 0>>, <<2, 0, 3>>}, n \in Limits}
  \cup {[Plain EXCEPT !.signal = TRUE, !.realTime = r, !.loop = l] :
          r \in BOOLEAN, l \in {<<0, 0>>, <<0, 1>>}}
  \cup {[Plain EXCEPT !.shortest["a"] = s, !.loop = l, !.maxFrames = n] :
          s \in BOOLEAN, l \in {<<0, 0>>, <<1, 0>>, <<0, 1>>}, n \in Limits}
  \cup {[Plain EXCEPT !.room[d] = n, !.maxSize[e] = k] :
          d \in {"a", "b"}, e \in {"a", "b"}, n \in 1..3, k \in 1..3}
=============================================================================
