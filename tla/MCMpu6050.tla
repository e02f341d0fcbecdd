------------------------------ MODULE MCMpu6050 ------------------------------
(* The sensor asleep, with bits set and bits clear in and around every field. *)
EXTENDS Mpu6050

Awakening ==
  {[r \in Configuration |->
      CASE r = RA_PWR_MGMT_1 -> 74 [] r = RA_CONFIG -> 172 [] r = RA_ACCEL_CONFIG -> 255 [] OTHER -> 0]}

Tilted == {<<16384, -1, -32768, 0, 255, -256>>}
=============================================================================
