---------------------------- MODULE MCAp6Reconf ----------------------------
(* Two NULL bitstreams for ap6_thread, 1 and 2, and two of an application. *)
EXTENDS Ap6Reconf

CONSTANTS daemon, app1, user1

\* An older header before the one that fits.
MCFormat == <<"header", "json">>
MCInterfaceId == <<"other", "fit">>

\* The NULL bitstream asks for no clock and no power; one of the application's for
\* both, the other has no metadata.
MCClock == <<0, 0, 200, 0>>
MCPower == <<0, 0, 20, 0>>
============================================================================
