-------------------------- MODULE MCFirmwareUpdate --------------------------
(* The installed version 1, a version 2 that does not suit it, and one of  *)
(* the same API whose main firmware does not come up.                      *)
EXTENDS FirmwareUpdate

MCVersion == {1, 2, 3}
MCApi == [v \in MCVersion |-> [major |-> IF v = 1 THEN 1 ELSE 2,
                               minor |-> IF v = 3 THEN 1 ELSE 0]]
MCImages(v, w) == [b \in Board |-> WholeImage(IF b = "zc95" THEN v ELSE w)]
(* a good package, a broken one, one that does not match and one without   *)
(* its second file                                                         *)
MCPackages == {MCImages(2, 2), MCImages(3, 3), MCImages(2, 1),
               [MCImages(2, 2) EXCEPT !["zc624"] = Missing]}
MCUploads == {Wiped, WholeImage(2)}
MCOriginal == MCImages(1, 1)

=============================================================================
