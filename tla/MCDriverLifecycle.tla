-------------------------- MODULE MCDriverLifecycle --------------------------
(***************************************************************************)
(* TLC instances of DriverLifecycle.  Drivers meet only in the name of     *)
(* their classes, where one sees of all the others only whether the name   *)
(* is taken: the fleets are pairs of drivers with one class name, with     *)
(* driver2 and ex07 for the table of major numbers, and drivers alone.     *)
(***************************************************************************)
EXTENDS DriverLifecycle

AllDrivers == { {"simple_driver", "irq_device_driver"}, {"proc_device_driver"},
                {"first", "basic_driver"}, {"base_driver", "first_driver"},
                {"driver3", "bh1750"}, {"driver4"}, {"detailed"},
                {"driver2", "ex07"}, {"real_simple"} }
DetailedAlone == { {"detailed"} }
=============================================================================
