\* Accept and Close of the TCP transport, with four connections and three
\* transient accept errors.
CONSTANTS
  MaxConns = 4
  MaxErrors = 3
SPECIFICATION Spec
PROPERTY TransporterRefined
\* Without Close, Accept waits in l.Accept for the next connection.
CHECK_DEADLOCK FALSE
