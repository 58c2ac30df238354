---------------------------- MODULE MCHalControls ---------------------------
(* A volume of two channels under two tags and an added control, which the *)
(* second version of the table has with another range.                     *)
EXTENDS HalControls

volume == [name |-> "PCM Playback Volume", user |-> FALSE, max |-> 2,
           value |-> <<0, 1>>]
MCHardware == {<<volume>>, <<>>}

onVolume(tag) == [tag |-> tag, name |-> volume.name, auto |-> FALSE,
                  max |-> 0, count |-> 0, value |-> 1]
ramp(max) == [tag |-> 3, name |-> "Rampup Master", auto |-> TRUE,
              max |-> max, count |-> 1, value |-> 1]
MCTable == [v \in Versions |-> <<onVolume(1), onVolume(2), ramp(v)>>]

MCTagQueries == {<<1>>, <<3, 2>>}
MCQueries ==
    {[verb |-> "get", query |-> <<>>],
     [verb |-> "get", query |-> <<Object(None, <<>>), Integer(2)>>],
     [verb |-> "get", query |-> <<Integer(2), Array(1, <<>>), Integer(1)>>],
     [verb |-> "set", query |-> <<Object(1, <<1>>), Array(1, <<2>>)>>],
     [verb |-> "set", query |-> <<Object(None, <<2>>), Object(2, <<1>>)>>],
     [verb |-> "set", query |-> <<Object(1, <<2>>), Integer(2)>>]}
=============================================================================
