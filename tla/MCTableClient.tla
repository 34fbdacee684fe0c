---------------------------- MODULE MCTableClient ----------------------------
(***************************************************************************)
(* insert_all feeds three files: sessions and queues, a file with a bad    *)
(* line in the middle, and one whose last method the switch does not have; *)
(* a hand at the remote reads and deletes sessions meanwhile.              *)
(***************************************************************************)
EXTENDS TableClient, TLC

CONSTANTS insert_all, hand

Do(name, words) == [name |-> name, words |-> words]

Files ==
  insert_all :> <<
    <<Do("mirroring_add", <<1, 3>>), Do("set_queue_depth", <<2>>),
      Do("set_queue_depth", <<3, 1>>), Do("set_queue_rate", <<1>>)>>,
    <<Do("mirroring_add", <<2, 1>>), Do("mirroring_delete", <<1, 1>>),
      Do("mirroring_add", <<2, 3>>)>>,
    <<Do("set_queue_rate", <<2, 3>>), Do("set_queue_rate", <<Wide>>)>>>>
  @@ hand :> <<
    <<Do("mirroring_mapping_add", <<3, 2>>)>>,
    <<Do("mirroring_mapping_get_egress_port", <<3>>)>>,
    <<Do("set_all_egress_queue_depths", <<1>>)>>,
    <<Do("mirroring_delete", <<2>>), Do("mirroring_mapping_get_egress_port", <<1>>)>>>>

AllButOne == Method \ {"set_all_egress_queue_depths"}
=============================================================================
