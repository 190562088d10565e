------------------------- MODULE MCDevicePlacement -------------------------
(***************************************************************************)
(* A small instance of DevicePlacement: three sessions, and two devices of *)
(* which the second takes exclusive reservations only.                     *)
(***************************************************************************)
EXTENDS DevicePlacement, TLC

CONSTANTS a, b, c

Units == 0 :> 3 @@ 1 :> 1

Somewhere(bytes) == [group |-> bytes, each |-> 0, least |-> 1, most |-> 1,
               preferMost |-> FALSE, exclusive |-> FALSE, device |-> AnyDevice]
OnDevice(d, bytes) == [Somewhere(bytes) EXCEPT !.device = d]
Alone(d) == [OnDevice(d, 0) EXCEPT !.exclusive = TRUE]
Pair == [Somewhere(1) EXCEPT !.least = 2, !.most = 2]
UpToTwo == [Somewhere(0) EXCEPT !.each = 1, !.most = 2, !.preferMost = TRUE]

\* Two sessions cross over on the devices.
Crossed == a :> <<OnDevice(0, 3), OnDevice(1, 1)>> @@
           b :> <<OnDevice(1, 1), OnDevice(0, 1)>> @@ c :> << >>
\* Two sessions hold a third of a device each and want the rest, beside a
\* resource that may have the last third.
Thirds == a :> <<OnDevice(0, 1)>> @@
          b :> <<OnDevice(0, 1), OnDevice(0, 2)>> @@ c :> <<OnDevice(0, 1), OnDevice(0, 2)>>
\* A group with an allocation of no bytes, a group that takes what it gets, and
\* one that wants the device for itself.
Groups == a :> <<Pair>> @@ b :> <<UpToTwo>> @@ c :> <<Alone(0)>>
\* The devices are left to the controller; the last request fits none.
Floating == a :> <<Somewhere(1), Somewhere(2)>> @@ b :> <<Somewhere(2)>> @@ c :> <<Somewhere(4)>>

Retries == a :> 1 @@ b :> 0 @@ c :> 0

AllWorkloads == {Crossed, Thirds, Groups, Floating}
=============================================================================
