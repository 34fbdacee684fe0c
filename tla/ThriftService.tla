---------------------------- MODULE ThriftService ----------------------------
(***************************************************************************)
(* The calls of cli/sswitch_runtime/SimpleSwitch.py and the messages that  *)
(* carry them.  A struct maps the numbers of its fields to their names; a  *)
(* message has the fields that were set, by number.                        *)
(***************************************************************************)
EXTENDS Integers, Sequences

CONSTANT None           \* what Python and an absent field have for a value

(* The structs: the arguments of a method are numbered from 1, its result  *)
(* is field 0.                                                             *)
Success == [id \in {0} |-> "success"]

mirroring_mapping_add_args == <<"mirror_id", "egress_port">>
mirroring_mapping_add_result == Success
mirroring_mapping_delete_args == <<"mirror_id">>
mirroring_mapping_delete_result == Success
mirroring_mapping_get_egress_port_args == <<"mirror_id">>
mirroring_mapping_get_egress_port_result == Success
set_egress_queue_depth_args == <<"port_num", "depth_pkts">>
set_egress_queue_depth_result == Success
set_all_egress_queue_depths_args == <<"depth_pkts">>
set_all_egress_queue_depths_result == Success
set_egress_queue_rate_args == <<"port_num", "rate_pps">>
set_egress_queue_rate_result == Success
set_all_egress_queue_rates_args == <<"rate_pps">>
set_all_egress_queue_rates_result == Success

ArgsOf ==
  [mirroring_mapping_add |-> mirroring_mapping_add_args,
   mirroring_mapping_delete |-> mirroring_mapping_delete_args,
   mirroring_mapping_get_egress_port |-> mirroring_mapping_get_egress_port_args,
   set_egress_queue_depth |-> set_egress_queue_depth_args,
   set_all_egress_queue_depths |-> set_all_egress_queue_depths_args,
   set_egress_queue_rate |-> set_egress_queue_rate_args,
   set_all_egress_queue_rates |-> set_all_egress_queue_rates_args]

ResultOf ==
  [mirroring_mapping_add |-> mirroring_mapping_add_result,
   mirroring_mapping_delete |-> mirroring_mapping_delete_result,
   mirroring_mapping_get_egress_port |-> mirroring_mapping_get_egress_port_result,
   set_egress_queue_depth |-> set_egress_queue_depth_result,
   set_all_egress_queue_depths |-> set_all_egress_queue_depths_result,
   set_egress_queue_rate |-> set_egress_queue_rate_result,
   set_all_egress_queue_rates |-> set_all_egress_queue_rates_result]

Method == DOMAIN ArgsOf

(* write and read of a struct: a field that is None is not written, a      *)
(* field the reader does not know is skipped, one that is missing is None. *)
WrittenWhole(struct, values) ==         \* Mutation: None is written too.
  [id \in DOMAIN struct |-> values[id]]
Written(struct, values) ==
  [id \in {i \in DOMAIN struct : values[i] # None} |-> values[id]]
Read(struct, fields) ==
  [id \in DOMAIN struct |-> IF id \in DOMAIN fields THEN fields[id] ELSE None]

(* The methods of the client, with the parameters in their order.          *)
Call(method, args) == [name |-> method, args |-> args]
mirroring_mapping_add(mirror_id, egress_port) ==
  Call("mirroring_mapping_add", <<mirror_id, egress_port>>)
mirroring_mapping_delete(mirror_id) ==
  Call("mirroring_mapping_delete", <<mirror_id>>)
mirroring_mapping_get_egress_port(mirror_id) ==
  Call("mirroring_mapping_get_egress_port", <<mirror_id>>)
set_egress_queue_depth(port_num, depth_pkts) ==
  Call("set_egress_queue_depth", <<port_num, depth_pkts>>)
set_all_egress_queue_depths(depth_pkts) ==
  Call("set_all_egress_queue_depths", <<depth_pkts>>)
set_egress_queue_rate(port_num, rate_pps) ==
  Call("set_egress_queue_rate", <<port_num, rate_pps>>)
set_all_egress_queue_rates(rate_pps) ==
  Call("set_all_egress_queue_rates", <<rate_pps>>)

(* send_*: the client never changes the sequence number it starts with.    *)
Request(call) ==
  [name |-> call.name, type |-> "CALL", seqid |-> 0,
   fields |-> Written(ArgsOf[call.name], call.args)]

(* Processor.process: a name that is not in the map is answered with an    *)
(* exception; otherwise the handler gets the arguments as they were read.  *)
UnknownFunction(msg) ==
  [name |-> msg.name, type |-> "EXCEPTION", seqid |-> msg.seqid, fields |-> <<>>]
Handled(msg) == Call(msg.name, Read(ArgsOf[msg.name], msg.fields))
Reply(msg, success) ==
  [name |-> msg.name, type |-> "REPLY", seqid |-> msg.seqid,
   fields |-> Written(ResultOf[msg.name], [id \in {0} |-> success])]

(* recv_*: the name and the sequence number of the answer are not looked   *)
(* at; it is read as the result of the method the caller waits for.        *)
Result(method, msg) == Read(ResultOf[method], msg.fields)[0]
Raises(method, msg) == msg.type = "EXCEPTION" \/ Result(method, msg) = None
=============================================================================
