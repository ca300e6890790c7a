----------------------------- MODULE MCChannels -----------------------------
(* Channels for TLC: every satellite, mode and kind of device. *)
EXTENDS Channels

(* A device of unknown kind, and those that the tables give a rate for; an *)
(* RTL-SDR is too narrow for anything but one kind of channels.            *)
MCConfigs ==
  {o \in [satellite : DOMAIN satellites,
          sdrs : {{}, {"rtl"}, {"sdrplay"}, {"hackrf"}},
          mode : {"aero", "stdc", "full", "auto"}, skip_c : BOOLEAN,
          samp_rate : {0}, center_freq : {0}, ppm : {0, 2}] :
     "rtl" \in o.sdrs => o.mode = "aero"}

(* 600 baud, 8400 baud, and a frequency outside of the band received. *)
MCAnnounced == {1545130000, 1546100000, 1530000000}

(* One offset that is corrected and one that is small enough to be left. *)
MCOffsets == {-700, 20}

=============================================================================
