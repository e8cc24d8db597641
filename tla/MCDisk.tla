------------------------------- MODULE MCDisk --------------------------------
EXTENDS Disk

(* Controllers that are found and that are not; two drives that are no ATA *)
(* drives or not there.                                                    *)
MCFunctions   == {<<0, 0, 0>>, <<0, 1, 0>>, <<0, 1, 1>>, <<1, 0, 0>>}
MCMulti       == {<<0, 1>>}
MCControllers == {<<0, 0, 0>>, <<0, 1, 1>>, <<1, 0, 0>>}
MCDrives == [x \in Places |->
    CASE x = <<0, 0>> -> Geometry("chs", 12, 3, 2)
      [] x = <<0, 1>> -> [mode |-> "packet"]
      [] x = <<1, 0>> -> [mode |-> "none"]
      [] x = <<1, 1>> -> Geometry("lba", 4, 0, 0)]
==============================================================================
