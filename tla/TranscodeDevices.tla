--------------------------- MODULE TranscodeDevices ---------------------------
(***************************************************************************)
(* The hardware devices of the sandbox transcoder                          *)
(* (src/src/sandbox/transcode_hw.cpp, and the parts of                     *)
(* transcode_inputstream.cpp that use them), as operators on the state m   *)
(* of the program, a record with the fields                                *)
(*   hw    the devices (hw_devices), each with its name and type,          *)
(*   dec   the hardware options of each input stream, and its device,      *)
(*   how   "ok", or "abort" once an exception left the program;            *)
(* the modules that extend this one add the rest.                          *)
(*                                                                         *)
(* A name is a stem and a number: the program makes such names itself, of  *)
(* the type and the first number that is free (it gives up at 1000, which  *)
(* is left out).  A device is its place in m.hw, or 0 if there is none.    *)
(***************************************************************************)
EXTENDS Integers, FiniteSetsExt, SequencesExt

CONSTANTS
  Null,
  Creatable,   \* the types of which a device can be created on this machine
  DecConfigs,  \* avcodec_get_hw_config() of the decoder of each input stream, in
               \* order: pixel format, device type, and whether it can be given a
               \* device (AV_CODEC_HW_CONFIG_METHOD_HW_DEVICE_CTX)
  EncConfigs,  \* that of the encoder of each output stream
  HwAccels     \* hwaccels[]: an id and its pixel format

NoDevice == 0

\* The pixel formats of frames that stay in a device.
Hardware ==
  UNION {{c.pix : c \in ToSet(DecConfigs[s])} : s \in DOMAIN DecConfigs} \cup {a.pix : a \in HwAccels}

\* hw_device_get_by_name()
GetByName(hw, name) == SelectInSeq(hw, LAMBDA d : d.name = name)

\* hw_device_get_by_type(): none, if it is not the only one of the type.
GetByType(hw, type) ==
  IF Cardinality({i \in DOMAIN hw : hw[i].type = type}) = 1
  THEN SelectInSeq(hw, LAMBDA d : d.type = type) ELSE NoDevice

\* hw_device_default_name()
DefaultName(hw, type) ==
  <<type, Min({n \in 0..Len(hw) : GetByName(hw, <<type, n>>) = NoDevice})>>

\* hw_device_add(), and what its callers set.
AddDevice(hw, name, type) == Append(hw, [name |-> name, type |-> type])

\* hw_device_init_from_string(), "type", "type=name", either of them with ":device"
\* or with "@source"; nothing is added if it is invalid or cannot be created.
InitFromString(hw, spec) ==
  LET taken == spec.name # Null /\ GetByName(hw, spec.name) # NoDevice
      lost == spec.source # Null /\ GetByName(hw, spec.source) = NoDevice
      name == IF spec.name = Null THEN DefaultName(hw, spec.type) ELSE spec.name
  IN IF taken \/ lost \/ spec.type \notin Creatable THEN hw ELSE AddDevice(hw, name, spec.type)

\* hw_device_init_from_type(), if a device of the type can be created; it is the
\* last one then.
InitFromType(hw, type) == AddDevice(hw, DefaultName(hw, type), type)

\* hw_device_match_by_codec()
MatchByCodec(hw, configs) ==
  LET i == SelectInSeq(configs, LAMBDA c : c.ctx /\ GetByType(hw, c.type) # NoDevice)
  IN IF i = 0 THEN NoDevice ELSE GetByType(hw, configs[i].type)

-----------------------------------------------------------------------------
(* Decoders. *)

\* The device that the options d of a stream ask for, if it is there.
Present(hw, d, configs) ==
  CASE d.name # Null -> GetByName(hw, d.name)
    [] d.name = Null /\ d.id = "generic" -> GetByType(hw, d.type)
    [] d.name = Null /\ d.id = "auto" -> NoDevice
    [] OTHER -> MatchByCodec(hw, configs)

\* Stream s gets the device that is at place dev of hw, which is of this type.
Given(m, s, hw, dev, type) ==
  [m EXCEPT !.hw = hw, !.dec[s] = [@ EXCEPT !.device = dev, !.type = type]]

\* Mutant: a device of any type will do.
UsableAlways(d, type) == TRUE

\* Does a device of this type, which the options d name, fit them?
Usable(d, type) == d.id = "auto" \/ d.type = type

\* The device at place dev is there.
Found(m, s, dev) ==
  LET d == m.dec[s]
      type == m.hw[dev].type
  IN IF d.name # Null /\ ~Usable(d, type) THEN [m EXCEPT !.how = "abort"]
     ELSE Given(m, s, m.hw, dev, IF d.name # Null /\ d.id = "auto" THEN type ELSE d.type)

\* A device of the type asked for is made.
Made(m, s, type) ==
  IF type \in Creatable THEN Given(m, s, InitFromType(m.hw, type), Len(m.hw) + 1, type)
  ELSE [m EXCEPT !.how = "abort"]

\* The end of hw_device_setup_for_decode() for "auto" without the device asked for:
\* one of a type that the decoder knows, there already or new, or no acceleration.
AutoDevice(m, s) ==
  LET configs == DecConfigs[s]
      old == SelectInSeq(configs, LAMBDA c : GetByType(m.hw, c.type) # NoDevice)
      new == SelectInSeq(configs, LAMBDA c : c.type \in Creatable)
  IN CASE configs = <<>> -> m
       [] old # 0 -> Given(m, s, m.hw, GetByType(m.hw, configs[old].type), configs[old].type)
       [] old = 0 /\ new # 0 -> Made(m, s, configs[new].type)
       [] OTHER -> [m EXCEPT !.dec[s].id = "none"]

\* hw_device_setup_for_decode(): a device of the name is of the type asked for, or
\* determines it; other streams do without one, but for "generic".
SetupForDecode(m, s) ==
  LET d == m.dec[s]
      dev == Present(m.hw, d, DecConfigs[s])
  IN IF dev # NoDevice THEN Found(m, s, dev)
     ELSE CASE d.id = "auto" -> AutoDevice(m, s)
            [] d.id = "generic" -> Made(m, s, d.type)
            [] OTHER -> m

\* openDecoder(): nothing is opened any more after an exception.
OpenDecoder(m, s) == IF m.how = "ok" THEN SetupForDecode(m, s) ELSE m

\* The first configuration of s that gives frames in pix with a device.
ConfigFor(s, pix) == SelectInSeq(DecConfigs[s], LAMBDA c : c.ctx /\ c.pix = pix)

ByConfig(d, s, pix) == d.id \in {"auto", "generic"} /\ ConfigFor(s, pix) # 0

\* Does get_format() take the hardware format pix?
Accepted(d, s, pix) ==
  IF ByConfig(d, s, pix) THEN DecConfigs[s][ConfigFor(s, pix)].type = d.type
  ELSE [id |-> d.id, pix |-> pix] \in HwAccels

\* get_format(), of a decoder that offers the formats of its configurations and
\* then the one without hardware.
GetFormat(d, s, soft) ==
  LET i == SelectInSeq(DecConfigs[s], LAMBDA c : Accepted(d, s, c.pix))
  IN IF i = 0 THEN soft ELSE DecConfigs[s][i].pix

\* decode_video() and hwaccel_retrieve_data(): what is in a format of a
\* configuration is copied out of the device, if the output is not to stay there.
Retrieved(d, s, soft) ==
  LET pix == GetFormat(d, s, soft)
  IN IF pix # soft /\ ByConfig(d, s, pix) /\ d.output # pix THEN soft ELSE pix
=============================================================================
