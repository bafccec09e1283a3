------------------------------- MODULE MCNmea -------------------------------
(***************************************************************************)
(* Two constellations, GPS before GLONASS.  The satellites of GPS are many *)
(* or none; or they are the same in two sentences, of which one or both    *)
(* have moved to the other.  The greater lists do not fit the buffer with  *)
(* GLONASS.                                                                *)
(***************************************************************************)
EXTENDS Nmea

MCTalkerOrder == <<"GP", "GL">>
MCGnssId == [t \in {"GP", "GL"} |-> IF t = "GP" THEN 0 ELSE 6]
Sky(gps, glonass) == [t \in {"GP", "GL"} |-> IF t = "GP" THEN gps ELSE glonass]
MCSkies ==
  { Sky(<< <<1, 2>>, <<3>> >>, << <<1>>, <<2>> >>),
    Sky(<< <<3, 1>>, <<2>> >>, << <<1>>, <<2>> >>),
    Sky(<< <<2>>, <<1>> >>, << <<1, 2>>, <<3>> >>),
    Sky(<< <<>> >>, << <<2>>, <<1>> >>),
    Sky(<< <<1, 2>>, <<3>>, <<4>> >>, << <<1>> >>) }
=============================================================================
