------------------------ MODULE MCWorkerSupervisor ------------------------
EXTENDS WorkerSupervisor

MCAgents == <<"ann", "bob">>

Profile(id, backend) == [id |-> id, backend |-> backend]

\* A catalog with a profile that needs the model server and one that does not, and
\* a catalog whose profile refers to a backend that it does not declare.
MCCatalogs ==
    {[schema |-> 2, backends |-> <<"mlx">>,
      profiles |-> <<Profile("local", "mlx"), Profile("remote", NoBackend)>>],
     [schema |-> 2, backends |-> <<>>, profiles |-> <<Profile("local", "mlx")>>]}

\* Three changes without a failure, or fewer with one or two.
MCBudgets == {<<3, 0>>, <<2, 1>>, <<1, 2>>}
=============================================================================
