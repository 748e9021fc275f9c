------------------------------ MODULE HxdFrame ------------------------------
(***************************************************************************)
(* Frames of the HXD019EU remote-control chip, in bytes                     *)
(* (hxd019_shared/src/hxd019_frame.c), and the AC state they carry.  A      *)
(* build of the firmware has one of two state formats, and in the longer    *)
(* one a choice of how a temperature is written (Kconfig):                  *)
(*   [keys |-> 7 or 11, minus16 |-> BOOLEAN].                               *)
(***************************************************************************)
EXTENDS Naturals, SequencesExt

Byte == 0 .. 255
(* The keys of the keypad are numbered from 1, power to "strong". *)
LastKey(build) == IF build.keys = 7 THEN 7 ELSE 15
TempRange(build) == IF build.keys = 7 THEN 19 .. 30 ELSE 16 .. 31

Default ==
  [temp |-> 25, fan |-> 1, swing |-> 2, swingAuto |-> 1, power |-> 0, key |-> 1, mode |-> 1,
   sleep |-> 0, auxHeat |-> 0, light |-> 1, eco |-> 0]

ValidState(st) ==
  /\ st.fan \in 1 .. 4 /\ st.swing \in 1 .. 3 /\ st.swingAuto \in 0 .. 1
  /\ st.power \in 0 .. 1 /\ st.mode \in 1 .. 5
  /\ {st.sleep, st.auxHeat, st.light, st.eco} \subseteq 0 .. 1

Sendable(st, build) ==
  ValidState(st) /\ st.key \in 1 .. LastKey(build) /\ st.temp \in TempRange(build)

Checksum(buf) == FoldLeft(LAMBDA sum, b : (sum + b) % 256, 0, buf)
Sealed(buf) == Append(buf, Checksum(buf))
BigEndian(group) == <<group \div 256, group % 256>>

AcSimple(group, func) == <<48, 6>> \o BigEndian(group) \o <<func>>
Learn == <<48, 32, 80>>
Match == <<48, 112, 160>>
(* An entry of the code table: format index, key and common code *)
Av(e) == Sealed(<<48, 0, e.fmt>> \o e.key \o e.com)

TempByte(temp, build) == IF build.minus16 THEN (temp + 256 - 16) % 256 ELSE temp

FaultyTail7or11(st, build) ==
  IF build.keys = 7 THEN <<3, 0, 0, 255>> ELSE <<st.sleep, st.light, st.auxHeat, st.eco>>
Tail7or11(st, build) ==
  IF build.keys = 7 THEN <<3, 0, 0, 255>> ELSE <<st.sleep, st.auxHeat, st.light, st.eco>>

AcState(group, st, build) ==
  Sealed(<<48, 1>> \o BigEndian(group)
    \o <<TempByte(st.temp, build), st.fan, st.swing, st.swingAuto, st.power, st.key, st.mode>>
    \o Tail7or11(st, build))

-----------------------------------------------------------------------------
(* The chip's side of the protocol, from hxd019_protocol.h: the length of a frame
   by its header, a sum over all but the last byte where there is one, and the
   state in a state frame.                                                     *)
WellFormed(f) ==
  /\ \A i \in DOMAIN f : f[i] \in Byte
  /\ \/ f \in {Learn, Match}
     \/ f[2] = 6 /\ Len(f) = 5
     \/ f[2] \in {0, 1} /\ Len(f) = (IF f[2] = 0 THEN 10 ELSE 16)
        /\ f[Len(f)] = FoldSeq(+, 0, Front(f)) % 256

Carries(f, group, st, build) ==
  /\ WellFormed(f) /\ f[2] = 1
  /\ 256 * f[3] + f[4] = group
  /\ f[5] + (IF build.minus16 THEN 16 ELSE 0) = st.temp
  /\ <<f[6], f[7], f[8], f[9], f[10], f[11]>>
       = <<st.fan, st.swing, st.swingAuto, st.power, st.key, st.mode>>
  /\ build.keys = 11 => <<f[12], f[13], f[14], f[15]>> = <<st.sleep, st.auxHeat, st.light, st.eco>>
=============================================================================
