-------------------------- MODULE MCConfigWatcher --------------------------
(* Instances of ConfigWatcher for TLC. *)
EXTENDS ConfigWatcher

CONSTANTS base, note, hotter, bad, colder, moved, disabled, garbage

\* One content per route, a comment-only edit, a config that the adapter refuses
\* and one that does not parse.
BaseConfig == [hot |-> 0, cold |-> 0, listen |-> 0, surface |-> "on"]
ParsedAll ==
    [f \in {base, note, hotter, bad, colder, moved, disabled, garbage} |->
        CASE f \in {base, note} -> BaseConfig
          [] f = hotter -> [BaseConfig EXCEPT !.hot = 1]
          [] f = bad -> [BaseConfig EXCEPT !.hot = 2]
          [] f = colder -> [BaseConfig EXCEPT !.cold = 1]
          [] f = moved -> [BaseConfig EXCEPT !.listen = 1]
          [] f = disabled -> [BaseConfig EXCEPT !.surface = "off"]
          [] f = garbage -> None]

ParsedMC == [f \in Contents |-> ParsedAll[f]]
ConfigMC == {ParsedAll[f] : f \in Contents} \ {None}
============================================================================
