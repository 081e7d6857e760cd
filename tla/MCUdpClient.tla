---------------------------- MODULE MCUdpClient ----------------------------
(* UdpClient with a list that unpacks and one that holds an unknown protocol. *)
EXTENDS UdpClient

MCListings == {<< "TCP" >>, << "UDP", "other" >>}

=============================================================================
