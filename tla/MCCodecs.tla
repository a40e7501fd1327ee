------------------------------- MODULE MCCodecs -------------------------------
(* Inputs for Codecs: every SteamID of nine bits with every value of a part   *)
(* and beyond, packets cut at every place, short data, and short key lists.   *)
EXTENDS Codecs

AllInputs ==
  [kind : {"set"}, id : SUBSET Low(Width), v : SUBSET Low(3)]
  \cup [kind : {"cut"}, header : 0..Lengths - 1, count : 0..3, n : 0..40]
  \cup [kind : {"pad"}, data : UNION {[1..n -> 0..BlockSize + 1] : n \in 0..5}]
  \cup [kind : {"keys"}, named : BOOLEAN,
        keys : UNION {[1..n -> [class : {1, 2}, instance : {"", "i", "j"}]] : n \in 1..4}]
=============================================================================
