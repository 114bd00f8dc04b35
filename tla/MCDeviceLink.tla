----------------------------- MODULE MCDeviceLink -----------------------------
EXTENDS DeviceLink

\* docs/decisions.md:4: "Ordering, persistence, growth, and timeout eligibility use
\* monotonic_ns": a stored incident never goes back to an older update of the device.
UpdatesInOrder == [][\A b \in Boots : hazard'[b] >= hazard[b]]_vars

\* docs/decisions.md:6: "Video is replaceable; incidents and timeline events are durable":
\* an event the edge raised is stored or still on its way.
EventsDurable ==
    \A n \in raised :
        \/ n \in events
        \/ \E c \in Connections : \E i \in DOMAIN wire[c] : wire[c][i].sequence = n
=============================================================================
