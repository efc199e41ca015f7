-------------------------------- MODULE Nmea --------------------------------
(***************************************************************************)
(* nmea.zig: what becomes of a sentence of the GPS receiver.               *)
(*                                                                         *)
(* A sentence is its formatter and the sequence of its fields, as its      *)
(* commas separate them.  Of a field only what the parser makes of it      *)
(* counts: "good" is what it expects there, "empty" is no characters, and  *)
(* "bad" is what it refuses.  A magnitude of parseLatLon() may also be     *)
(* "early": nine characters or more, and its '.' among the first two; and  *)
(* its direction may be "long": more than one character.                   *)
(***************************************************************************)
EXTENDS Naturals, Sequences

(* Sentences of which parse() reads no field.                              *)
Ignored == {"PMTK", "PQ", "DTM", "GBS", "GLL", "GSA", "TXT", "VTG"}

Formatter == Ignored \cup {"GGA", "GSV", "RMC",
                           "unknown",   \* any other code
                           "empty"}     \* no code and no field at all

FieldClass == {"good", "empty", "bad", "early", "long"}

-----------------------------------------------------------------------------
(* Each call that reads a field is "ok", returns an "error" or panics:     *)
(* `splits.next().?` of a field that is not there.  What comes after a     *)
(* code without a comma is split into one empty field.                     *)
Field(m, i) == IF i \in DOMAIN m.fields THEN m.fields[i]
               ELSE IF i = 1 THEN "empty"
               ELSE "missing"

Present(f) == IF f = "missing" THEN "panic" ELSE "ok"

(* parseUTC(), parseDate(), and `try` with parseUnsigned() or parseFloat() *)
Required(f) == IF f = "missing" THEN "panic" ELSE IF f = "good" THEN "ok" ELSE "error"

(* quality[0] and status[0]                                                *)
FirstCharacter(f) == IF f \in {"missing", "empty"} THEN "panic" ELSE "ok"

(* parseLatLon(): `i - 2` underflows for an early '.', unless the          *)
(* direction has been refused before.                                      *)
LatLon(mag, dir) ==
  IF "missing" \in {mag, dir} THEN "panic"
  ELSE IF "empty" \in {mag, dir} THEN "ok"
  ELSE IF mag = "early" /\ dir # "long" THEN "panic"
  ELSE IF mag = "good" /\ dir = "good" THEN "ok"
  ELSE "error"

HasLatLon(mag, dir) == "empty" \notin {mag, dir}

(* The calls of a parser, of which the first that is not ok decides.       *)
Outcome(calls) ==
  IF \A i \in DOMAIN calls : calls[i] = "ok" THEN "ok"
  ELSE IF \E i \in DOMAIN calls :
            calls[i] = "panic" /\ \A j \in DOMAIN calls : j < i => calls[j] = "ok" THEN "panic"
  ELSE "error"

-----------------------------------------------------------------------------
(* Mutant: the dilution is parsed with `try`.                              *)
ParseGGAStrictly(m) ==
  Outcome(<< Required(Field(m, 1)), LatLon(Field(m, 2), Field(m, 3)),
             LatLon(Field(m, 4), Field(m, 5)), Present(Field(m, 6)), Required(Field(m, 7)),
             Required(Field(m, 8)), Present(Field(m, 12)), FirstCharacter(Field(m, 6)) >>)

(* Time, position, quality and satellites are read; dilution, altitude and *)
(* separation need only be there; and at last quality[0].                  *)
ParseGGA(m) ==
  Outcome(<< Required(Field(m, 1)), LatLon(Field(m, 2), Field(m, 3)),
             LatLon(Field(m, 4), Field(m, 5)), Present(Field(m, 6)), Required(Field(m, 7)),
             Present(Field(m, 12)), FirstCharacter(Field(m, 6)) >>)

(* Only the number of satellites is read.                                  *)
ParseGSV(m) == Required(Field(m, 3))

(* Speed, course and date are required even of a receiver without a fix;   *)
(* mode and navigational status may be empty.                              *)
ParseRMC(m) ==
  Outcome(<< Required(Field(m, 1)), Present(Field(m, 2)),
             LatLon(Field(m, 3), Field(m, 4)), LatLon(Field(m, 5), Field(m, 6)),
             Required(Field(m, 7)), Required(Field(m, 8)), Required(Field(m, 9)),
             Present(Field(m, 11)), FirstCharacter(Field(m, 2)) >>)

(* parse() takes three characters for the checksum, and validateChecksum() *)
(* also accepts one digit: of "$*0" there are only two.                    *)
Parse(m, digits) ==
  IF m.formatter = "empty" THEN IF digits = 1 THEN "panic" ELSE "error"
  ELSE IF m.formatter \in Ignored THEN "ok"
  ELSE IF m.formatter = "GGA" THEN ParseGGA(m)
  ELSE IF m.formatter = "GSV" THEN ParseGSV(m)
  ELSE IF m.formatter = "RMC" THEN ParseRMC(m)
  ELSE "error"

(* extractPoint(): GGA and RMC have a point if both coordinates are there, *)
(* whatever their quality and status say of them.                          *)
HasPoint(m) ==
  \/ m.formatter = "GGA" /\ HasLatLon(m.fields[2], m.fields[3])
                         /\ HasLatLon(m.fields[4], m.fields[5])
  \/ m.formatter = "RMC" /\ HasLatLon(m.fields[3], m.fields[4])
                         /\ HasLatLon(m.fields[5], m.fields[6])

(* What nextPoint() makes of a sentence.                                   *)
Verdict(m, digits) ==
  IF Parse(m, digits) # "ok" THEN Parse(m, digits)
  ELSE IF HasPoint(m) THEN "point"
  ELSE "none"
=============================================================================
