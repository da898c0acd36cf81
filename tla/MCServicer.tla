----------------------------- MODULE MCServicer -----------------------------
(***************************************************************************)
(* Adapters that override up to three methods and declare three commands,  *)
(* one of them a stream, before and during a call of the platform.         *)
(***************************************************************************)
EXTENDS Servicer

MCVendorIds == {"vendor.acme.spray"}
MCAdapters ==
    {{}, {"boot_up_sub_asset", "change_ac_mode", "manual_control_input"},
     {"take_off", "return_to_home", "get_detections"}}
MCRegistrable ==
    {<<"flight.return_to_home", "AVAILABLE">>, <<"asset.change_ac_mode", "TEMPORARILY_UNAVAILABLE">>,
     <<"flight.manual.input", "AVAILABLE">>}
MCRpcs == {"boot_up_sub_asset", "change_ac_mode", "take_off", "return_to_home", "manual_control_input",
           "get_detections", "health", "get_capabilities", "send_custom_command"}
MCSentIds == {"asset.change_ac_mode", "asset.boot_sub_asset", "flight.takeoff", "flight.return_to_home",
              "flight.manual.input", "vendor.acme.spray"}
=============================================================================
