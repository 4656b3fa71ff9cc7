---------------------------- MODULE MCRegistration ----------------------------
(* Small instances of Registration.                                          *)
EXTENDS Registration, TLC

CONSTANTS r1, r2, r3

\* The three character-device modules.
Modules == r1 :> "psd" @@ r2 :> "poll" @@ r3 :> "ioctl"

\* The drivers that test class_create with IS_ERR.
Checked == r1 :> "psd" @@ r2 :> "i2c_gen" @@ r3 :> "w25q32"

\* Two devices of one driver, which share its class pointer.
Twins == r1 :> "psd" @@ r2 :> "i2c_gen" @@ r3 :> "i2c_gen"

\* The clock next to a driver on the same bus.
Clock == r1 :> "ds1302" @@ r2 :> "psd" @@ r3 :> "w25q32"

MCTeams == {Modules, Checked, Twins, Clock}
=============================================================================
